---- MODULE Spec2Model ----
(***************************************************************************)
(* GitLens AI: the React component App (src/App.tsx) and the analysis      *)
(* client analyzeProject (src/services/gemini.ts).                         *)
(*                                                                         *)
(* Strings that the code inspects (file names, paths, file contents, the   *)
(* query) are sequences of one-character strings.  Strings that the code   *)
(* only stores and shows (error messages) are TLA+ strings.                *)
(*                                                                         *)
(* The state is the React state of App that the handlers read or write to  *)
(* decide something (user, showAuthModal, query, projectData, analysis,    *)
(* loading, analyzing, error), the localStorage item, and the suspended    *)
(* invocations of the async handlers.  The flags copied, dragActive and    *)
(* showUserMenu only drive the rendering and are left out.  React applies  *)
(* the setState calls of one synchronous stretch of a handler together, so *)
(* each stretch between two awaits is one action.                          *)
(***************************************************************************)
EXTENDS Integers, Sequences, FiniteSets, TLC

(***************************************************************************)
(* Bounds of the model                                                     *)
(***************************************************************************)
\* number of user actions (repository queries, accepted uploads) in one run
MaxTasks == 2
\* number of entries of an archive in the archive specification
MaxEntries == 2
\* number of key files of a project in the prompt specification
MaxKeyFiles == 2
\* how far beyond a limit of the prompt the lengths of the inputs go
MaxExcess == 2

(***************************************************************************)
(* String primitives of JavaScript used by the code                        *)
(***************************************************************************)
(***************************************************************************)
(* A string is the sequence of its UTF-16 code units.  A code unit is      *)
(* written as the character itself when it is a printable ASCII character  *)
(* other than the grave accent, or one of tab, line feed, form feed and    *)
(* carriage return, and as "U+" followed by its four hexadecimal digits    *)
(* otherwise: "U+0060", "U+00C9", "U+D801".                                *)
(***************************************************************************)
HexDigits == <<"0", "1", "2", "3", "4", "5", "6", "7", "8", "9",
               "A", "B", "C", "D", "E", "F">>

\* the code units U+0020 .. U+007E in the order of their codes
AsciiPrintable ==
    <<" ", "!", "\"", "#", "$", "%", "&", "'", "(", ")", "*", "+", ",", "-", ".", "/",
      "0", "1", "2", "3", "4", "5", "6", "7", "8", "9", ":", ";", "<", "=", ">", "?",
      "@", "A", "B", "C", "D", "E", "F", "G", "H", "I", "J", "K", "L", "M", "N", "O",
      "P", "Q", "R", "S", "T", "U", "V", "W", "X", "Y", "Z", "[", "\\", "]", "^", "_",
      "U+0060", "a", "b", "c", "d", "e", "f", "g", "h", "i", "j", "k", "l", "m", "n",
      "o", "p", "q", "r", "s", "t", "u", "v", "w", "x", "y", "z", "{", "|", "}", "~">>

\* the position of x in seq
Position(seq, x) == CHOOSE i \in 1..Len(seq) : seq[i] = x

\* is the code unit written as the character itself
IsPlain(c) == Len(c) = 1

\* the number of a code unit
Code(c) ==
    IF IsPlain(c)
    THEN IF c = "\t" THEN 9
         ELSE IF c = "\n" THEN 10
         ELSE IF c = "\f" THEN 12
         ELSE IF c = "\r" THEN 13
         ELSE Position(AsciiPrintable, c) + 31
    ELSE 4096 * (Position(HexDigits, SubSeq(c, 3, 3)) - 1)
           + 256 * (Position(HexDigits, SubSeq(c, 4, 4)) - 1)
           + 16 * (Position(HexDigits, SubSeq(c, 5, 5)) - 1)
           + (Position(HexDigits, SubSeq(c, 6, 6)) - 1)

\* the code unit of a number below 2^16
Unit(n) ==
    IF n >= 32 /\ n <= 126 THEN AsciiPrintable[n - 31]
    ELSE IF n = 9 THEN "\t"
    ELSE IF n = 10 THEN "\n"
    ELSE IF n = 12 THEN "\f"
    ELSE IF n = 13 THEN "\r"
    ELSE "U+" \o HexDigits[(n \div 4096) + 1] \o HexDigits[((n \div 256) % 16) + 1]
              \o HexDigits[((n \div 16) % 16) + 1] \o HexDigits[(n % 16) + 1]

\* the concatenation of the sequences of a list
RECURSIVE Concat(_)
Concat(list) ==
    IF list = <<>> THEN <<>>
    ELSE IF Len(list) = 1 THEN list[1]
         ELSE LET half == Len(list) \div 2
              IN  Concat(SubSeq(list, 1, half)) \o Concat(SubSeq(list, half + 1, Len(list)))

\* the code points of a string: a high surrogate followed by a low one is
\* one code point, any other code unit is a code point of its own
CodePoints(s) ==
    LET u == [i \in 1..Len(s) |-> Code(s[i])]
        IsHighSurrogate(n) == n >= \hD800 /\ n <= \hDBFF
        IsLowSurrogate(n) == n >= \hDC00 /\ n <= \hDFFF
        point(i) ==
            IF i > 1 /\ IsLowSurrogate(u[i]) /\ IsHighSurrogate(u[i - 1])
            THEN <<>>
            ELSE IF i < Len(s) /\ IsHighSurrogate(u[i]) /\ IsLowSurrogate(u[i + 1])
                 THEN <<\h10000 + (u[i] - \hD800) * \h400 + (u[i + 1] - \hDC00)>>
                 ELSE <<u[i]>>
    IN  Concat([i \in 1..Len(s) |-> point(i)])

\* the code units of a sequence of code points
CodeUnits(points) ==
    Concat([k \in 1..Len(points) |->
              IF points[k] >= \h10000
              THEN <<Unit(\hD800 + ((points[k] - \h10000) \div \h400)),
                     Unit(\hDC00 + ((points[k] - \h10000) % \h400))>>
              ELSE <<Unit(points[k])>>])

\* The lowercase mappings of single code points (Unicode 17.0), as rows
\* <<first, last, step, mapping of first>>: the code points first,
\* first + step, ... up to last map to the code points at the same distance
\* from the mapping of first.  U+0130 is not in the table: it maps to the
\* two code points U+0069 U+0307.
LowerRanges == <<
    <<\h0041, \h005A, 1, \h0061>>, <<\h00C0, \h00D6, 1, \h00E0>>, <<\h00D8, \h00DE, 1, \h00F8>>,
    <<\h0100, \h012E, 2, \h0101>>, <<\h0132, \h0136, 2, \h0133>>, <<\h0139, \h0147, 2, \h013A>>,
    <<\h014A, \h0176, 2, \h014B>>, <<\h0178, \h0178, 1, \h00FF>>, <<\h0179, \h017D, 2, \h017A>>,
    <<\h0181, \h0181, 1, \h0253>>, <<\h0182, \h0184, 2, \h0183>>, <<\h0186, \h0186, 1, \h0254>>,
    <<\h0187, \h0187, 1, \h0188>>, <<\h0189, \h018A, 1, \h0256>>, <<\h018B, \h018B, 1, \h018C>>,
    <<\h018E, \h018E, 1, \h01DD>>, <<\h018F, \h018F, 1, \h0259>>, <<\h0190, \h0190, 1, \h025B>>,
    <<\h0191, \h0191, 1, \h0192>>, <<\h0193, \h0193, 1, \h0260>>, <<\h0194, \h0194, 1, \h0263>>,
    <<\h0196, \h0196, 1, \h0269>>, <<\h0197, \h0197, 1, \h0268>>, <<\h0198, \h0198, 1, \h0199>>,
    <<\h019C, \h019C, 1, \h026F>>, <<\h019D, \h019D, 1, \h0272>>, <<\h019F, \h019F, 1, \h0275>>,
    <<\h01A0, \h01A4, 2, \h01A1>>, <<\h01A6, \h01A6, 1, \h0280>>, <<\h01A7, \h01A7, 1, \h01A8>>,
    <<\h01A9, \h01A9, 1, \h0283>>, <<\h01AC, \h01AC, 1, \h01AD>>, <<\h01AE, \h01AE, 1, \h0288>>,
    <<\h01AF, \h01AF, 1, \h01B0>>, <<\h01B1, \h01B2, 1, \h028A>>, <<\h01B3, \h01B5, 2, \h01B4>>,
    <<\h01B7, \h01B7, 1, \h0292>>, <<\h01B8, \h01B8, 1, \h01B9>>, <<\h01BC, \h01BC, 1, \h01BD>>,
    <<\h01C4, \h01C4, 1, \h01C6>>, <<\h01C5, \h01C5, 1, \h01C6>>, <<\h01C7, \h01C7, 1, \h01C9>>,
    <<\h01C8, \h01C8, 1, \h01C9>>, <<\h01CA, \h01CA, 1, \h01CC>>, <<\h01CB, \h01DB, 2, \h01CC>>,
    <<\h01DE, \h01EE, 2, \h01DF>>, <<\h01F1, \h01F1, 1, \h01F3>>, <<\h01F2, \h01F4, 2, \h01F3>>,
    <<\h01F6, \h01F6, 1, \h0195>>, <<\h01F7, \h01F7, 1, \h01BF>>, <<\h01F8, \h021E, 2, \h01F9>>,
    <<\h0220, \h0220, 1, \h019E>>, <<\h0222, \h0232, 2, \h0223>>, <<\h023A, \h023A, 1, \h2C65>>,
    <<\h023B, \h023B, 1, \h023C>>, <<\h023D, \h023D, 1, \h019A>>, <<\h023E, \h023E, 1, \h2C66>>,
    <<\h0241, \h0241, 1, \h0242>>, <<\h0243, \h0243, 1, \h0180>>, <<\h0244, \h0244, 1, \h0289>>,
    <<\h0245, \h0245, 1, \h028C>>, <<\h0246, \h024E, 2, \h0247>>, <<\h0370, \h0372, 2, \h0371>>,
    <<\h0376, \h0376, 1, \h0377>>, <<\h037F, \h037F, 1, \h03F3>>, <<\h0386, \h0386, 1, \h03AC>>,
    <<\h0388, \h038A, 1, \h03AD>>, <<\h038C, \h038C, 1, \h03CC>>, <<\h038E, \h038F, 1, \h03CD>>,
    <<\h0391, \h03A1, 1, \h03B1>>, <<\h03A3, \h03AB, 1, \h03C3>>, <<\h03CF, \h03CF, 1, \h03D7>>,
    <<\h03D8, \h03EE, 2, \h03D9>>, <<\h03F4, \h03F4, 1, \h03B8>>, <<\h03F7, \h03F7, 1, \h03F8>>,
    <<\h03F9, \h03F9, 1, \h03F2>>, <<\h03FA, \h03FA, 1, \h03FB>>, <<\h03FD, \h03FF, 1, \h037B>>,
    <<\h0400, \h040F, 1, \h0450>>, <<\h0410, \h042F, 1, \h0430>>, <<\h0460, \h0480, 2, \h0461>>,
    <<\h048A, \h04BE, 2, \h048B>>, <<\h04C0, \h04C0, 1, \h04CF>>, <<\h04C1, \h04CD, 2, \h04C2>>,
    <<\h04D0, \h052E, 2, \h04D1>>, <<\h0531, \h0556, 1, \h0561>>, <<\h10A0, \h10C5, 1, \h2D00>>,
    <<\h10C7, \h10C7, 1, \h2D27>>, <<\h10CD, \h10CD, 1, \h2D2D>>, <<\h13A0, \h13EF, 1, \hAB70>>,
    <<\h13F0, \h13F5, 1, \h13F8>>, <<\h1C89, \h1C89, 1, \h1C8A>>, <<\h1C90, \h1CBA, 1, \h10D0>>,
    <<\h1CBD, \h1CBF, 1, \h10FD>>, <<\h1E00, \h1E94, 2, \h1E01>>, <<\h1E9E, \h1E9E, 1, \h00DF>>,
    <<\h1EA0, \h1EFE, 2, \h1EA1>>, <<\h1F08, \h1F0F, 1, \h1F00>>, <<\h1F18, \h1F1D, 1, \h1F10>>,
    <<\h1F28, \h1F2F, 1, \h1F20>>, <<\h1F38, \h1F3F, 1, \h1F30>>, <<\h1F48, \h1F4D, 1, \h1F40>>,
    <<\h1F59, \h1F5F, 2, \h1F51>>, <<\h1F68, \h1F6F, 1, \h1F60>>, <<\h1F88, \h1F8F, 1, \h1F80>>,
    <<\h1F98, \h1F9F, 1, \h1F90>>, <<\h1FA8, \h1FAF, 1, \h1FA0>>, <<\h1FB8, \h1FB9, 1, \h1FB0>>,
    <<\h1FBA, \h1FBB, 1, \h1F70>>, <<\h1FBC, \h1FBC, 1, \h1FB3>>, <<\h1FC8, \h1FCB, 1, \h1F72>>,
    <<\h1FCC, \h1FCC, 1, \h1FC3>>, <<\h1FD8, \h1FD9, 1, \h1FD0>>, <<\h1FDA, \h1FDB, 1, \h1F76>>,
    <<\h1FE8, \h1FE9, 1, \h1FE0>>, <<\h1FEA, \h1FEB, 1, \h1F7A>>, <<\h1FEC, \h1FEC, 1, \h1FE5>>,
    <<\h1FF8, \h1FF9, 1, \h1F78>>, <<\h1FFA, \h1FFB, 1, \h1F7C>>, <<\h1FFC, \h1FFC, 1, \h1FF3>>,
    <<\h2126, \h2126, 1, \h03C9>>, <<\h212A, \h212A, 1, \h006B>>, <<\h212B, \h212B, 1, \h00E5>>,
    <<\h2132, \h2132, 1, \h214E>>, <<\h2160, \h216F, 1, \h2170>>, <<\h2183, \h2183, 1, \h2184>>,
    <<\h24B6, \h24CF, 1, \h24D0>>, <<\h2C00, \h2C2F, 1, \h2C30>>, <<\h2C60, \h2C60, 1, \h2C61>>,
    <<\h2C62, \h2C62, 1, \h026B>>, <<\h2C63, \h2C63, 1, \h1D7D>>, <<\h2C64, \h2C64, 1, \h027D>>,
    <<\h2C67, \h2C6B, 2, \h2C68>>, <<\h2C6D, \h2C6D, 1, \h0251>>, <<\h2C6E, \h2C6E, 1, \h0271>>,
    <<\h2C6F, \h2C6F, 1, \h0250>>, <<\h2C70, \h2C70, 1, \h0252>>, <<\h2C72, \h2C72, 1, \h2C73>>,
    <<\h2C75, \h2C75, 1, \h2C76>>, <<\h2C7E, \h2C7F, 1, \h023F>>, <<\h2C80, \h2CE2, 2, \h2C81>>,
    <<\h2CEB, \h2CED, 2, \h2CEC>>, <<\h2CF2, \h2CF2, 1, \h2CF3>>, <<\hA640, \hA66C, 2, \hA641>>,
    <<\hA680, \hA69A, 2, \hA681>>, <<\hA722, \hA72E, 2, \hA723>>, <<\hA732, \hA76E, 2, \hA733>>,
    <<\hA779, \hA77B, 2, \hA77A>>, <<\hA77D, \hA77D, 1, \h1D79>>, <<\hA77E, \hA786, 2, \hA77F>>,
    <<\hA78B, \hA78B, 1, \hA78C>>, <<\hA78D, \hA78D, 1, \h0265>>, <<\hA790, \hA792, 2, \hA791>>,
    <<\hA796, \hA7A8, 2, \hA797>>, <<\hA7AA, \hA7AA, 1, \h0266>>, <<\hA7AB, \hA7AB, 1, \h025C>>,
    <<\hA7AC, \hA7AC, 1, \h0261>>, <<\hA7AD, \hA7AD, 1, \h026C>>, <<\hA7AE, \hA7AE, 1, \h026A>>,
    <<\hA7B0, \hA7B0, 1, \h029E>>, <<\hA7B1, \hA7B1, 1, \h0287>>, <<\hA7B2, \hA7B2, 1, \h029D>>,
    <<\hA7B3, \hA7B3, 1, \hAB53>>, <<\hA7B4, \hA7C2, 2, \hA7B5>>, <<\hA7C4, \hA7C4, 1, \hA794>>,
    <<\hA7C5, \hA7C5, 1, \h0282>>, <<\hA7C6, \hA7C6, 1, \h1D8E>>, <<\hA7C7, \hA7C9, 2, \hA7C8>>,
    <<\hA7CB, \hA7CB, 1, \h0264>>, <<\hA7CC, \hA7DA, 2, \hA7CD>>, <<\hA7DC, \hA7DC, 1, \h019B>>,
    <<\hA7F5, \hA7F5, 1, \hA7F6>>, <<\hFF21, \hFF3A, 1, \hFF41>>, <<\h10400, \h10427, 1, \h10428>>,
    <<\h104B0, \h104D3, 1, \h104D8>>, <<\h10570, \h10594, 2, \h10597>>, <<\h10571, \h10579, 2, \h10598>>,
    <<\h1057D, \h10589, 2, \h105A4>>, <<\h1058D, \h10591, 2, \h105B4>>, <<\h10595, \h10595, 1, \h105BC>>,
    <<\h10C80, \h10CB2, 1, \h10CC0>>, <<\h10D50, \h10D65, 1, \h10D70>>, <<\h118A0, \h118BF, 1, \h118C0>>,
    <<\h16E40, \h16E5F, 1, \h16E60>>, <<\h16EA0, \h16EB8, 1, \h16EBB>>, <<\h1E900, \h1E921, 1, \h1E922>> >>

\* the code points with the property Cased (Unicode 17.0), as ranges
\* <<first, last>>
CasedRanges == <<
    <<\h0041, \h005A>>, <<\h0061, \h007A>>, <<\h00AA, \h00AA>>, <<\h00B5, \h00B5>>,
    <<\h00BA, \h00BA>>, <<\h00C0, \h00D6>>, <<\h00D8, \h00F6>>, <<\h00F8, \h01BA>>,
    <<\h01BC, \h01BF>>, <<\h01C4, \h0293>>, <<\h0296, \h02B8>>, <<\h02C0, \h02C1>>,
    <<\h02E0, \h02E4>>, <<\h0345, \h0345>>, <<\h0370, \h0373>>, <<\h0376, \h0377>>,
    <<\h037A, \h037D>>, <<\h037F, \h037F>>, <<\h0386, \h0386>>, <<\h0388, \h038A>>,
    <<\h038C, \h038C>>, <<\h038E, \h03A1>>, <<\h03A3, \h03F5>>, <<\h03F7, \h0481>>,
    <<\h048A, \h052F>>, <<\h0531, \h0556>>, <<\h0560, \h0588>>, <<\h10A0, \h10C5>>,
    <<\h10C7, \h10C7>>, <<\h10CD, \h10CD>>, <<\h10D0, \h10FA>>, <<\h10FC, \h10FF>>,
    <<\h13A0, \h13F5>>, <<\h13F8, \h13FD>>, <<\h1C80, \h1C8A>>, <<\h1C90, \h1CBA>>,
    <<\h1CBD, \h1CBF>>, <<\h1D00, \h1DBF>>, <<\h1E00, \h1F15>>, <<\h1F18, \h1F1D>>,
    <<\h1F20, \h1F45>>, <<\h1F48, \h1F4D>>, <<\h1F50, \h1F57>>, <<\h1F59, \h1F59>>,
    <<\h1F5B, \h1F5B>>, <<\h1F5D, \h1F5D>>, <<\h1F5F, \h1F7D>>, <<\h1F80, \h1FB4>>,
    <<\h1FB6, \h1FBC>>, <<\h1FBE, \h1FBE>>, <<\h1FC2, \h1FC4>>, <<\h1FC6, \h1FCC>>,
    <<\h1FD0, \h1FD3>>, <<\h1FD6, \h1FDB>>, <<\h1FE0, \h1FEC>>, <<\h1FF2, \h1FF4>>,
    <<\h1FF6, \h1FFC>>, <<\h2071, \h2071>>, <<\h207F, \h207F>>, <<\h2090, \h209C>>,
    <<\h2102, \h2102>>, <<\h2107, \h2107>>, <<\h210A, \h2113>>, <<\h2115, \h2115>>,
    <<\h2119, \h211D>>, <<\h2124, \h2124>>, <<\h2126, \h2126>>, <<\h2128, \h2128>>,
    <<\h212A, \h212D>>, <<\h212F, \h2134>>, <<\h2139, \h2139>>, <<\h213C, \h213F>>,
    <<\h2145, \h2149>>, <<\h214E, \h214E>>, <<\h2160, \h217F>>, <<\h2183, \h2184>>,
    <<\h24B6, \h24E9>>, <<\h2C00, \h2CE4>>, <<\h2CEB, \h2CEE>>, <<\h2CF2, \h2CF3>>,
    <<\h2D00, \h2D25>>, <<\h2D27, \h2D27>>, <<\h2D2D, \h2D2D>>, <<\hA640, \hA66D>>,
    <<\hA680, \hA69D>>, <<\hA722, \hA787>>, <<\hA78B, \hA78E>>, <<\hA790, \hA7DC>>,
    <<\hA7F1, \hA7F6>>, <<\hA7F8, \hA7FA>>, <<\hAB30, \hAB5A>>, <<\hAB5C, \hAB69>>,
    <<\hAB70, \hABBF>>, <<\hFB00, \hFB06>>, <<\hFB13, \hFB17>>, <<\hFF21, \hFF3A>>,
    <<\hFF41, \hFF5A>>, <<\h10400, \h1044F>>, <<\h104B0, \h104D3>>, <<\h104D8, \h104FB>>,
    <<\h10570, \h1057A>>, <<\h1057C, \h1058A>>, <<\h1058C, \h10592>>, <<\h10594, \h10595>>,
    <<\h10597, \h105A1>>, <<\h105A3, \h105B1>>, <<\h105B3, \h105B9>>, <<\h105BB, \h105BC>>,
    <<\h10780, \h10780>>, <<\h10783, \h10785>>, <<\h10787, \h107B0>>, <<\h107B2, \h107BA>>,
    <<\h10C80, \h10CB2>>, <<\h10CC0, \h10CF2>>, <<\h10D50, \h10D65>>, <<\h10D70, \h10D85>>,
    <<\h118A0, \h118DF>>, <<\h16E40, \h16E7F>>, <<\h16EA0, \h16EB8>>, <<\h16EBB, \h16ED3>>,
    <<\h1D400, \h1D454>>, <<\h1D456, \h1D49C>>, <<\h1D49E, \h1D49F>>, <<\h1D4A2, \h1D4A2>>,
    <<\h1D4A5, \h1D4A6>>, <<\h1D4A9, \h1D4AC>>, <<\h1D4AE, \h1D4B9>>, <<\h1D4BB, \h1D4BB>>,
    <<\h1D4BD, \h1D4C3>>, <<\h1D4C5, \h1D505>>, <<\h1D507, \h1D50A>>, <<\h1D50D, \h1D514>>,
    <<\h1D516, \h1D51C>>, <<\h1D51E, \h1D539>>, <<\h1D53B, \h1D53E>>, <<\h1D540, \h1D544>>,
    <<\h1D546, \h1D546>>, <<\h1D54A, \h1D550>>, <<\h1D552, \h1D6A5>>, <<\h1D6A8, \h1D6C0>>,
    <<\h1D6C2, \h1D6DA>>, <<\h1D6DC, \h1D6FA>>, <<\h1D6FC, \h1D714>>, <<\h1D716, \h1D734>>,
    <<\h1D736, \h1D74E>>, <<\h1D750, \h1D76E>>, <<\h1D770, \h1D788>>, <<\h1D78A, \h1D7A8>>,
    <<\h1D7AA, \h1D7C2>>, <<\h1D7C4, \h1D7CB>>, <<\h1DF00, \h1DF09>>, <<\h1DF0B, \h1DF1E>>,
    <<\h1DF25, \h1DF2A>>, <<\h1E030, \h1E06D>>, <<\h1E900, \h1E943>>, <<\h1F130, \h1F149>>,
    <<\h1F150, \h1F169>>, <<\h1F170, \h1F189>> >>

\* the code points with the property Case_Ignorable (Unicode 17.0), as
\* ranges <<first, last>>
CaseIgnorableRanges == <<
    <<\h0027, \h0027>>, <<\h002E, \h002E>>, <<\h003A, \h003A>>, <<\h005E, \h005E>>,
    <<\h0060, \h0060>>, <<\h00A8, \h00A8>>, <<\h00AD, \h00AD>>, <<\h00AF, \h00AF>>,
    <<\h00B4, \h00B4>>, <<\h00B7, \h00B8>>, <<\h02B0, \h036F>>, <<\h0374, \h0375>>,
    <<\h037A, \h037A>>, <<\h0384, \h0385>>, <<\h0387, \h0387>>, <<\h0483, \h0489>>,
    <<\h0559, \h0559>>, <<\h055F, \h055F>>, <<\h0591, \h05BD>>, <<\h05BF, \h05BF>>,
    <<\h05C1, \h05C2>>, <<\h05C4, \h05C5>>, <<\h05C7, \h05C7>>, <<\h05F4, \h05F4>>,
    <<\h0600, \h0605>>, <<\h0610, \h061A>>, <<\h061C, \h061C>>, <<\h0640, \h0640>>,
    <<\h064B, \h065F>>, <<\h0670, \h0670>>, <<\h06D6, \h06DD>>, <<\h06DF, \h06E8>>,
    <<\h06EA, \h06ED>>, <<\h070F, \h070F>>, <<\h0711, \h0711>>, <<\h0730, \h074A>>,
    <<\h07A6, \h07B0>>, <<\h07EB, \h07F5>>, <<\h07FA, \h07FA>>, <<\h07FD, \h07FD>>,
    <<\h0816, \h082D>>, <<\h0859, \h085B>>, <<\h0888, \h0888>>, <<\h0890, \h0891>>,
    <<\h0897, \h089F>>, <<\h08C9, \h0902>>, <<\h093A, \h093A>>, <<\h093C, \h093C>>,
    <<\h0941, \h0948>>, <<\h094D, \h094D>>, <<\h0951, \h0957>>, <<\h0962, \h0963>>,
    <<\h0971, \h0971>>, <<\h0981, \h0981>>, <<\h09BC, \h09BC>>, <<\h09C1, \h09C4>>,
    <<\h09CD, \h09CD>>, <<\h09E2, \h09E3>>, <<\h09FE, \h09FE>>, <<\h0A01, \h0A02>>,
    <<\h0A3C, \h0A3C>>, <<\h0A41, \h0A42>>, <<\h0A47, \h0A48>>, <<\h0A4B, \h0A4D>>,
    <<\h0A51, \h0A51>>, <<\h0A70, \h0A71>>, <<\h0A75, \h0A75>>, <<\h0A81, \h0A82>>,
    <<\h0ABC, \h0ABC>>, <<\h0AC1, \h0AC5>>, <<\h0AC7, \h0AC8>>, <<\h0ACD, \h0ACD>>,
    <<\h0AE2, \h0AE3>>, <<\h0AFA, \h0AFF>>, <<\h0B01, \h0B01>>, <<\h0B3C, \h0B3C>>,
    <<\h0B3F, \h0B3F>>, <<\h0B41, \h0B44>>, <<\h0B4D, \h0B4D>>, <<\h0B55, \h0B56>>,
    <<\h0B62, \h0B63>>, <<\h0B82, \h0B82>>, <<\h0BC0, \h0BC0>>, <<\h0BCD, \h0BCD>>,
    <<\h0C00, \h0C00>>, <<\h0C04, \h0C04>>, <<\h0C3C, \h0C3C>>, <<\h0C3E, \h0C40>>,
    <<\h0C46, \h0C48>>, <<\h0C4A, \h0C4D>>, <<\h0C55, \h0C56>>, <<\h0C62, \h0C63>>,
    <<\h0C81, \h0C81>>, <<\h0CBC, \h0CBC>>, <<\h0CBF, \h0CBF>>, <<\h0CC6, \h0CC6>>,
    <<\h0CCC, \h0CCD>>, <<\h0CE2, \h0CE3>>, <<\h0D00, \h0D01>>, <<\h0D3B, \h0D3C>>,
    <<\h0D41, \h0D44>>, <<\h0D4D, \h0D4D>>, <<\h0D62, \h0D63>>, <<\h0D81, \h0D81>>,
    <<\h0DCA, \h0DCA>>, <<\h0DD2, \h0DD4>>, <<\h0DD6, \h0DD6>>, <<\h0E31, \h0E31>>,
    <<\h0E34, \h0E3A>>, <<\h0E46, \h0E4E>>, <<\h0EB1, \h0EB1>>, <<\h0EB4, \h0EBC>>,
    <<\h0EC6, \h0EC6>>, <<\h0EC8, \h0ECE>>, <<\h0F18, \h0F19>>, <<\h0F35, \h0F35>>,
    <<\h0F37, \h0F37>>, <<\h0F39, \h0F39>>, <<\h0F71, \h0F7E>>, <<\h0F80, \h0F84>>,
    <<\h0F86, \h0F87>>, <<\h0F8D, \h0F97>>, <<\h0F99, \h0FBC>>, <<\h0FC6, \h0FC6>>,
    <<\h102D, \h1030>>, <<\h1032, \h1037>>, <<\h1039, \h103A>>, <<\h103D, \h103E>>,
    <<\h1058, \h1059>>, <<\h105E, \h1060>>, <<\h1071, \h1074>>, <<\h1082, \h1082>>,
    <<\h1085, \h1086>>, <<\h108D, \h108D>>, <<\h109D, \h109D>>, <<\h10FC, \h10FC>>,
    <<\h135D, \h135F>>, <<\h1712, \h1714>>, <<\h1732, \h1733>>, <<\h1752, \h1753>>,
    <<\h1772, \h1773>>, <<\h17B4, \h17B5>>, <<\h17B7, \h17BD>>, <<\h17C6, \h17C6>>,
    <<\h17C9, \h17D3>>, <<\h17D7, \h17D7>>, <<\h17DD, \h17DD>>, <<\h180B, \h180F>>,
    <<\h1843, \h1843>>, <<\h1885, \h1886>>, <<\h18A9, \h18A9>>, <<\h1920, \h1922>>,
    <<\h1927, \h1928>>, <<\h1932, \h1932>>, <<\h1939, \h193B>>, <<\h1A17, \h1A18>>,
    <<\h1A1B, \h1A1B>>, <<\h1A56, \h1A56>>, <<\h1A58, \h1A5E>>, <<\h1A60, \h1A60>>,
    <<\h1A62, \h1A62>>, <<\h1A65, \h1A6C>>, <<\h1A73, \h1A7C>>, <<\h1A7F, \h1A7F>>,
    <<\h1AA7, \h1AA7>>, <<\h1AB0, \h1ADD>>, <<\h1AE0, \h1AEB>>, <<\h1B00, \h1B03>>,
    <<\h1B34, \h1B34>>, <<\h1B36, \h1B3A>>, <<\h1B3C, \h1B3C>>, <<\h1B42, \h1B42>>,
    <<\h1B6B, \h1B73>>, <<\h1B80, \h1B81>>, <<\h1BA2, \h1BA5>>, <<\h1BA8, \h1BA9>>,
    <<\h1BAB, \h1BAD>>, <<\h1BE6, \h1BE6>>, <<\h1BE8, \h1BE9>>, <<\h1BED, \h1BED>>,
    <<\h1BEF, \h1BF1>>, <<\h1C2C, \h1C33>>, <<\h1C36, \h1C37>>, <<\h1C78, \h1C7D>>,
    <<\h1CD0, \h1CD2>>, <<\h1CD4, \h1CE0>>, <<\h1CE2, \h1CE8>>, <<\h1CED, \h1CED>>,
    <<\h1CF4, \h1CF4>>, <<\h1CF8, \h1CF9>>, <<\h1D2C, \h1D6A>>, <<\h1D78, \h1D78>>,
    <<\h1D9B, \h1DFF>>, <<\h1FBD, \h1FBD>>, <<\h1FBF, \h1FC1>>, <<\h1FCD, \h1FCF>>,
    <<\h1FDD, \h1FDF>>, <<\h1FED, \h1FEF>>, <<\h1FFD, \h1FFE>>, <<\h200B, \h200F>>,
    <<\h2018, \h2019>>, <<\h2024, \h2024>>, <<\h2027, \h2027>>, <<\h202A, \h202E>>,
    <<\h2060, \h2064>>, <<\h2066, \h206F>>, <<\h2071, \h2071>>, <<\h207F, \h207F>>,
    <<\h2090, \h209C>>, <<\h20D0, \h20F0>>, <<\h2C7C, \h2C7D>>, <<\h2CEF, \h2CF1>>,
    <<\h2D6F, \h2D6F>>, <<\h2D7F, \h2D7F>>, <<\h2DE0, \h2DFF>>, <<\h2E2F, \h2E2F>>,
    <<\h3005, \h3005>>, <<\h302A, \h302D>>, <<\h3031, \h3035>>, <<\h303B, \h303B>>,
    <<\h3099, \h309E>>, <<\h30FC, \h30FE>>, <<\hA015, \hA015>>, <<\hA4F8, \hA4FD>>,
    <<\hA60C, \hA60C>>, <<\hA66F, \hA672>>, <<\hA674, \hA67D>>, <<\hA67F, \hA67F>>,
    <<\hA69C, \hA69F>>, <<\hA6F0, \hA6F1>>, <<\hA700, \hA721>>, <<\hA770, \hA770>>,
    <<\hA788, \hA78A>>, <<\hA7F1, \hA7F4>>, <<\hA7F8, \hA7F9>>, <<\hA802, \hA802>>,
    <<\hA806, \hA806>>, <<\hA80B, \hA80B>>, <<\hA825, \hA826>>, <<\hA82C, \hA82C>>,
    <<\hA8C4, \hA8C5>>, <<\hA8E0, \hA8F1>>, <<\hA8FF, \hA8FF>>, <<\hA926, \hA92D>>,
    <<\hA947, \hA951>>, <<\hA980, \hA982>>, <<\hA9B3, \hA9B3>>, <<\hA9B6, \hA9B9>>,
    <<\hA9BC, \hA9BD>>, <<\hA9CF, \hA9CF>>, <<\hA9E5, \hA9E6>>, <<\hAA29, \hAA2E>>,
    <<\hAA31, \hAA32>>, <<\hAA35, \hAA36>>, <<\hAA43, \hAA43>>, <<\hAA4C, \hAA4C>>,
    <<\hAA70, \hAA70>>, <<\hAA7C, \hAA7C>>, <<\hAAB0, \hAAB0>>, <<\hAAB2, \hAAB4>>,
    <<\hAAB7, \hAAB8>>, <<\hAABE, \hAABF>>, <<\hAAC1, \hAAC1>>, <<\hAADD, \hAADD>>,
    <<\hAAEC, \hAAED>>, <<\hAAF3, \hAAF4>>, <<\hAAF6, \hAAF6>>, <<\hAB5B, \hAB5F>>,
    <<\hAB69, \hAB6B>>, <<\hABE5, \hABE5>>, <<\hABE8, \hABE8>>, <<\hABED, \hABED>>,
    <<\hFB1E, \hFB1E>>, <<\hFBB2, \hFBC2>>, <<\hFE00, \hFE0F>>, <<\hFE13, \hFE13>>,
    <<\hFE20, \hFE2F>>, <<\hFE52, \hFE52>>, <<\hFE55, \hFE55>>, <<\hFEFF, \hFEFF>>,
    <<\hFF07, \hFF07>>, <<\hFF0E, \hFF0E>>, <<\hFF1A, \hFF1A>>, <<\hFF3E, \hFF3E>>,
    <<\hFF40, \hFF40>>, <<\hFF70, \hFF70>>, <<\hFF9E, \hFF9F>>, <<\hFFE3, \hFFE3>>,
    <<\hFFF9, \hFFFB>>, <<\h101FD, \h101FD>>, <<\h102E0, \h102E0>>, <<\h10376, \h1037A>>,
    <<\h10780, \h10785>>, <<\h10787, \h107B0>>, <<\h107B2, \h107BA>>, <<\h10A01, \h10A03>>,
    <<\h10A05, \h10A06>>, <<\h10A0C, \h10A0F>>, <<\h10A38, \h10A3A>>, <<\h10A3F, \h10A3F>>,
    <<\h10AE5, \h10AE6>>, <<\h10D24, \h10D27>>, <<\h10D4E, \h10D4E>>, <<\h10D69, \h10D6D>>,
    <<\h10D6F, \h10D6F>>, <<\h10EAB, \h10EAC>>, <<\h10EC5, \h10EC5>>, <<\h10EFA, \h10EFF>>,
    <<\h10F46, \h10F50>>, <<\h10F82, \h10F85>>, <<\h11001, \h11001>>, <<\h11038, \h11046>>,
    <<\h11070, \h11070>>, <<\h11073, \h11074>>, <<\h1107F, \h11081>>, <<\h110B3, \h110B6>>,
    <<\h110B9, \h110BA>>, <<\h110BD, \h110BD>>, <<\h110C2, \h110C2>>, <<\h110CD, \h110CD>>,
    <<\h11100, \h11102>>, <<\h11127, \h1112B>>, <<\h1112D, \h11134>>, <<\h11173, \h11173>>,
    <<\h11180, \h11181>>, <<\h111B6, \h111BE>>, <<\h111C9, \h111CC>>, <<\h111CF, \h111CF>>,
    <<\h1122F, \h11231>>, <<\h11234, \h11234>>, <<\h11236, \h11237>>, <<\h1123E, \h1123E>>,
    <<\h11241, \h11241>>, <<\h112DF, \h112DF>>, <<\h112E3, \h112EA>>, <<\h11300, \h11301>>,
    <<\h1133B, \h1133C>>, <<\h11340, \h11340>>, <<\h11366, \h1136C>>, <<\h11370, \h11374>>,
    <<\h113BB, \h113C0>>, <<\h113CE, \h113CE>>, <<\h113D0, \h113D0>>, <<\h113D2, \h113D2>>,
    <<\h113E1, \h113E2>>, <<\h11438, \h1143F>>, <<\h11442, \h11444>>, <<\h11446, \h11446>>,
    <<\h1145E, \h1145E>>, <<\h114B3, \h114B8>>, <<\h114BA, \h114BA>>, <<\h114BF, \h114C0>>,
    <<\h114C2, \h114C3>>, <<\h115B2, \h115B5>>, <<\h115BC, \h115BD>>, <<\h115BF, \h115C0>>,
    <<\h115DC, \h115DD>>, <<\h11633, \h1163A>>, <<\h1163D, \h1163D>>, <<\h1163F, \h11640>>,
    <<\h116AB, \h116AB>>, <<\h116AD, \h116AD>>, <<\h116B0, \h116B5>>, <<\h116B7, \h116B7>>,
    <<\h1171D, \h1171D>>, <<\h1171F, \h1171F>>, <<\h11722, \h11725>>, <<\h11727, \h1172B>>,
    <<\h1182F, \h11837>>, <<\h11839, \h1183A>>, <<\h1193B, \h1193C>>, <<\h1193E, \h1193E>>,
    <<\h11943, \h11943>>, <<\h119D4, \h119D7>>, <<\h119DA, \h119DB>>, <<\h119E0, \h119E0>>,
    <<\h11A01, \h11A0A>>, <<\h11A33, \h11A38>>, <<\h11A3B, \h11A3E>>, <<\h11A47, \h11A47>>,
    <<\h11A51, \h11A56>>, <<\h11A59, \h11A5B>>, <<\h11A8A, \h11A96>>, <<\h11A98, \h11A99>>,
    <<\h11B60, \h11B60>>, <<\h11B62, \h11B64>>, <<\h11B66, \h11B66>>, <<\h11C30, \h11C36>>,
    <<\h11C38, \h11C3D>>, <<\h11C3F, \h11C3F>>, <<\h11C92, \h11CA7>>, <<\h11CAA, \h11CB0>>,
    <<\h11CB2, \h11CB3>>, <<\h11CB5, \h11CB6>>, <<\h11D31, \h11D36>>, <<\h11D3A, \h11D3A>>,
    <<\h11D3C, \h11D3D>>, <<\h11D3F, \h11D45>>, <<\h11D47, \h11D47>>, <<\h11D90, \h11D91>>,
    <<\h11D95, \h11D95>>, <<\h11D97, \h11D97>>, <<\h11DD9, \h11DD9>>, <<\h11EF3, \h11EF4>>,
    <<\h11F00, \h11F01>>, <<\h11F36, \h11F3A>>, <<\h11F40, \h11F40>>, <<\h11F42, \h11F42>>,
    <<\h11F5A, \h11F5A>>, <<\h13430, \h13440>>, <<\h13447, \h13455>>, <<\h1611E, \h16129>>,
    <<\h1612D, \h1612F>>, <<\h16AF0, \h16AF4>>, <<\h16B30, \h16B36>>, <<\h16B40, \h16B43>>,
    <<\h16D40, \h16D42>>, <<\h16D6B, \h16D6C>>, <<\h16F4F, \h16F4F>>, <<\h16F8F, \h16F9F>>,
    <<\h16FE0, \h16FE1>>, <<\h16FE3, \h16FE4>>, <<\h16FF2, \h16FF3>>, <<\h1AFF0, \h1AFF3>>,
    <<\h1AFF5, \h1AFFB>>, <<\h1AFFD, \h1AFFE>>, <<\h1BC9D, \h1BC9E>>, <<\h1BCA0, \h1BCA3>>,
    <<\h1CF00, \h1CF2D>>, <<\h1CF30, \h1CF46>>, <<\h1D167, \h1D169>>, <<\h1D173, \h1D182>>,
    <<\h1D185, \h1D18B>>, <<\h1D1AA, \h1D1AD>>, <<\h1D242, \h1D244>>, <<\h1DA00, \h1DA36>>,
    <<\h1DA3B, \h1DA6C>>, <<\h1DA75, \h1DA75>>, <<\h1DA84, \h1DA84>>, <<\h1DA9B, \h1DA9F>>,
    <<\h1DAA1, \h1DAAF>>, <<\h1E000, \h1E006>>, <<\h1E008, \h1E018>>, <<\h1E01B, \h1E021>>,
    <<\h1E023, \h1E024>>, <<\h1E026, \h1E02A>>, <<\h1E030, \h1E06D>>, <<\h1E08F, \h1E08F>>,
    <<\h1E130, \h1E13D>>, <<\h1E2AE, \h1E2AE>>, <<\h1E2EC, \h1E2EF>>, <<\h1E4EB, \h1E4EF>>,
    <<\h1E5EE, \h1E5EF>>, <<\h1E6E3, \h1E6E3>>, <<\h1E6E6, \h1E6E6>>, <<\h1E6EE, \h1E6EF>>,
    <<\h1E6F5, \h1E6F5>>, <<\h1E6FF, \h1E6FF>>, <<\h1E8D0, \h1E8D6>>, <<\h1E944, \h1E94B>>,
    <<\h1F3FB, \h1F3FF>>, <<\hE0001, \hE0001>>, <<\hE0020, \hE007F>>, <<\hE0100, \hE01EF>> >>

InRanges(ranges, n) ==
    \E r \in 1..Len(ranges) : ranges[r][1] <= n /\ n <= ranges[r][2]

\* the lowercase mapping of a code point that maps to one code point
SimpleLower(n) ==
    LET rows == {r \in 1..Len(LowerRanges) :
                    /\ LowerRanges[r][1] <= n
                    /\ n <= LowerRanges[r][2]
                    /\ (n - LowerRanges[r][1]) % LowerRanges[r][3] = 0}
    IN  IF rows = {} THEN n
        ELSE LET row == LowerRanges[CHOOSE r \in rows : TRUE]
             IN  row[4] + (n - row[1])

\* the condition Final_Sigma on the capital sigma at position k: going
\* backwards over the case-ignorable code points there is a cased one, and
\* going forwards over the case-ignorable ones there is no cased one
FinalSigma(points, k) ==
    LET Cased(n) == InRanges(CasedRanges, n)
        CaseIgnorable(n) == InRanges(CaseIgnorableRanges, n)
        before == {j \in 1..(k - 1) : ~CaseIgnorable(points[j])}
        after  == {j \in (k + 1)..Len(points) : ~CaseIgnorable(points[j])}
    IN  /\ before # {}
        /\ Cased(points[CHOOSE j \in before : \A i \in before : i <= j])
        /\ \/ after = {}
           \/ ~Cased(points[CHOOSE j \in after : \A i \in after : j <= i])

\* the lowercase mapping of the code point at position k
LowerPoint(points, k) ==
    IF points[k] = \h03A3
    THEN IF FinalSigma(points, k) THEN <<\h03C2>> ELSE <<\h03C3>>
    ELSE IF points[k] = \h0130 THEN <<\h0069, \h0307>>
    ELSE <<SimpleLower(points[k])>>

UpperCase == <<"A", "B", "C", "D", "E", "F", "G", "H", "I", "J", "K", "L", "M",
               "N", "O", "P", "Q", "R", "S", "T", "U", "V", "W", "X", "Y", "Z">>

LowerCase == <<"a", "b", "c", "d", "e", "f", "g", "h", "i", "j", "k", "l", "m",
               "n", "o", "p", "q", "r", "s", "t", "u", "v", "w", "x", "y", "z">>

\* the lowercase mapping of a printable ASCII character: A-Z to a-z
LowerAscii(c) ==
    IF \E i \in 1..Len(UpperCase) : UpperCase[i] = c
    THEN LowerCase[Position(UpperCase, c)]
    ELSE c

\* String.prototype.toLowerCase: the lowercase mappings of the code points
\* of the string, in order (in a string of plain characters only the
\* letters A-Z have one)
ToLowerCase(s) ==
    IF \A i \in 1..Len(s) : IsPlain(s[i])
    THEN [i \in 1..Len(s) |-> LowerAscii(s[i])]
    ELSE LET points == CodePoints(s)
         IN  CodeUnits(Concat([k \in 1..Len(points) |-> LowerPoint(points, k)]))

\* String.prototype.slice(from, to) with 0 <= from, 0-based, end exclusive
Slice(s, from, to) ==
    LET hi == IF to > Len(s) THEN Len(s) ELSE to
    IN  IF from >= hi THEN <<>> ELSE SubSeq(s, from + 1, hi)

\* pat occurs in s at the 1-based position i
OccursAt(s, pat, i) ==
    /\ i >= 1
    /\ i + Len(pat) - 1 <= Len(s)
    /\ \A k \in 1..Len(pat) : s[i + k - 1] = pat[k]

\* String.prototype.endsWith
EndsWith(s, pat) == OccursAt(s, pat, Len(s) - Len(pat) + 1)

\* String.prototype.replace(pat, rep) with a string pattern: the FIRST
\* occurrence only
ReplaceFirst(s, pat, rep) ==
    IF \E i \in 1..Len(s) : OccursAt(s, pat, i)
    THEN LET p == CHOOSE i \in 1..Len(s) :
                     /\ OccursAt(s, pat, i)
                     /\ \A j \in 1..(i - 1) : ~OccursAt(s, pat, j)
         IN  SubSeq(s, 1, p - 1) \o rep \o SubSeq(s, p + Len(pat), Len(s))
    ELSE s

\* the white space and line terminators that String.prototype.trim removes:
\* tab, line feed, vertical tab, form feed, carriage return, the byte order
\* mark U+FEFF, the line and paragraph separators, and the space
\* separators (blank, no-break space, U+1680, U+2000 .. U+200A, U+202F,
\* U+205F, U+3000)
WhiteSpace ==
    {" ", "\t", "\n", "\r", "\f", "U+000B", "U+00A0", "U+1680",
     "U+2000", "U+2001", "U+2002", "U+2003", "U+2004", "U+2005", "U+2006",
     "U+2007", "U+2008", "U+2009", "U+200A", "U+2028", "U+2029", "U+202F",
     "U+205F", "U+3000", "U+FEFF"}

\* String.prototype.trimStart
RECURSIVE TrimLeft(_)
TrimLeft(s) == IF s # <<>> /\ s[1] \in WhiteSpace THEN TrimLeft(Tail(s)) ELSE s

\* String.prototype.trimEnd
RECURSIVE TrimRight(_)
TrimRight(s) ==
    IF s # <<>> /\ s[Len(s)] \in WhiteSpace
    THEN TrimRight(SubSeq(s, 1, Len(s) - 1))
    ELSE s

\* String.prototype.trim
Trim(s) == TrimRight(TrimLeft(s))

\* fileName.split('/').pop(): the text after the last '/', '' when the
\* path ends in '/'
LastSegment(path) ==
    LET slashes == {i \in 1..Len(path) : path[i] = "/"}
    IN  IF slashes = {} THEN path
        ELSE LET last == CHOOSE i \in slashes : \A j \in slashes : j <= i
             IN  SubSeq(path, last + 1, Len(path))

\* Array.prototype.includes on an array of strings
Includes(list, x) == \E i \in 1..Len(list) : list[i] = x

(***************************************************************************)
(* processZipFile: building the LocalProject of an uploaded archive        *)
(***************************************************************************)
\* the array keyFilesToRead, as written in the source
keyFilesToRead == <<
    <<"p", "a", "c", "k", "a", "g", "e", ".", "j", "s", "o", "n">>,
    <<"R", "E", "A", "D", "M", "E", ".", "m", "d">>,
    <<"r", "e", "q", "u", "i", "r", "e", "m", "e", "n", "t", "s", ".", "t",
      "x", "t">>,
    <<"p", "y", "p", "r", "o", "j", "e", "c", "t", ".", "t", "o", "m", "l">>,
    <<"G", "e", "m", "f", "i", "l", "e">>,
    <<"c", "o", "m", "p", "o", "s", "e", "r", ".", "j", "s", "o", "n">>,
    <<"p", "o", "m", ".", "x", "m", "l">>,
    <<"b", "u", "i", "l", "d", ".", "g", "r", "a", "d", "l", "e">>,
    <<"D", "o", "c", "k", "e", "r", "f", "i", "l", "e">>,
    <<"d", "o", "c", "k", "e", "r", "-", "c", "o", "m", "p", "o", "s", "e",
      ".", "y", "m", "l">>,
    <<"g", "o", ".", "m", "o", "d">> >>

DotZip == <<".", "z", "i", "p">>

Ellipsis == <<".", ".", ".">>

ReadmeBaseName == <<"r", "e", "a", "d", "m", "e", ".", "m", "d">>

\* "Projeto local carregado via ZIP"
DescriptionPlaceholder ==
    <<"P", "r", "o", "j", "e", "t", "o", " ", "l", "o", "c", "a", "l", " ",
      "c", "a", "r", "r", "e", "g", "a", "d", "o", " ", "v", "i", "a", " ",
      "Z", "I", "P">>

\* readmeContent.slice(0, 300) and readmeContent.length > 300
DescriptionLimit == 300

\* An archive entry is [path, dir, content]: a key of contents.files, the
\* dir flag of the entry and the text that async('string') decodes.
\* baseName of the loop: the last path segment, lowercased
BaseName(entry) == ToLowerCase(LastSegment(entry.path))

\* variant of IsKeyFile that forgets the allow-list
IsKeyFileAnyName(entry) ==
    /\ BaseName(entry) # <<>>
    /\ ~entry.dir

\* the condition under which the loop reads an entry
IsKeyFile(entry) ==
    /\ BaseName(entry) # <<>>
    /\ Includes(keyFilesToRead, BaseName(entry))
    /\ ~entry.dir

\* the locals of the loop before its first iteration: keyFileContents = {}
\* (its pairs in insertion order) and readmeContent = ""
NoneRead == [keyFiles |-> <<>>, readme |-> <<>>]

\* The loop over filePaths runs synchronously from one entry to the next
\* and suspends at the await of async('string') of every entry it reads.
\* The position of the first entry after position `from` that the loop
\* reads, 0 when it reads none of them and runs to its end.
NextKeyFile(entries, from) ==
    LET later == {i \in (from + 1)..Len(entries) : IsKeyFile(entries[i])}
    IN  IF later = {} THEN 0
        ELSE CHOOSE i \in later : \A j \in later : i <= j

\* the two assignments after the await: the content is stored under the
\* path, and it becomes readmeContent when the base name is 'readme.md'
EntryRead(read, e) ==
    [keyFiles |-> Append(read.keyFiles, [name |-> e.path, content |-> e.content]),
     readme   |-> IF BaseName(e) = ReadmeBaseName THEN e.content ELSE read.readme]

\* variant of Description without the `||` placeholder
DescriptionNoFallback(readmeContent) ==
    Slice(readmeContent, 0, DescriptionLimit)
      \o (IF Len(readmeContent) > DescriptionLimit THEN Ellipsis ELSE <<>>)

\* the description expression: slice + ellipsis, `||` placeholder when the
\* result is the empty string
Description(readmeContent) ==
    LET cut == Slice(readmeContent, 0, DescriptionLimit)
                 \o (IF Len(readmeContent) > DescriptionLimit THEN Ellipsis ELSE <<>>)
    IN  IF cut = <<>> THEN DescriptionPlaceholder ELSE cut

\* the object localProject, built after the loop from its locals
LocalProjectOf(fileName, entries, read) ==
    [name        |-> ReplaceFirst(fileName, DotZip, <<>>),
     description |-> Description(read.readme),
     files       |-> [i \in 1..Len(entries) |-> entries[i].path],
     keyFiles    |-> read.keyFiles]

(***************************************************************************)
(* analyzeProject: the completion call and JSON.parse of its text          *)
(*                                                                         *)
(* A response text is a sequence of JSON tokens: "{", "}", ":", ",",       *)
(* "null", value tokens "str" (a string literal) and "arr0".."arr5" (an    *)
(* array literal of that many strings), and names.  A name is the key of   *)
(* a member where a key may stand; anywhere else it is text that is not    *)
(* JSON.                                                                   *)
(*                                                                         *)
(* A parsed value is [kind, fields]: kind is "null", "object" or the value *)
(* token of a string or an array, and fields maps each key of an object to *)
(* the kind of its value.                                                  *)
(***************************************************************************)
\* the seven properties of the interface AIAnalysis / of responseSchema
RequiredFields == {"summary", "keyFeatures", "targetAudience", "techStackRating",
                   "suggestions", "projectType", "githubActionsWorkflow"}

ValueTokens == {"str", "arr0", "arr1", "arr2", "arr3", "arr4", "arr5"}

\* tokens that cannot be the key of a member
Structural == {"{", "}", ":", ",", "null"} \cup ValueTokens

\* the value null of JavaScript, for a parsed value and for the analysis state
NullValue == [kind |-> "null", fields |-> <<>>]

SyntaxError == [kind |-> "SyntaxError", fields |-> <<>>]

\* f with key k set to v (a later duplicate key overrides an earlier one)
WithField(f, k, v) == [x \in (DOMAIN f) \cup {k} |-> IF x = k THEN v ELSE f[x]]

\* the outcome of parsing one value: ok, the value, and the tokens after it
NoParse == [ok |-> FALSE, value |-> SyntaxError, rest |-> <<>>]

\* one JSON value at the head of toks: null, a string, an array, or an
\* object "{" "}" / "{" members "}"
RECURSIVE ParseValue(_)
\* the members of an object after "{": key ":" value ("," key ":" value)*
\* up to and including the closing "}"
RECURSIVE ParseMembers(_, _)
ParseValue(toks) ==
    IF toks = <<>> THEN NoParse
    ELSE IF toks[1] = "null"
         THEN [ok |-> TRUE, value |-> NullValue, rest |-> Tail(toks)]
    ELSE IF toks[1] \in ValueTokens
         THEN [ok |-> TRUE, value |-> [kind |-> toks[1], fields |-> <<>>],
               rest |-> Tail(toks)]
    ELSE IF toks[1] = "{"
         THEN IF Len(toks) >= 2 /\ toks[2] = "}"
              THEN [ok |-> TRUE, value |-> [kind |-> "object", fields |-> <<>>],
                    rest |-> SubSeq(toks, 3, Len(toks))]
              ELSE ParseMembers(Tail(toks), <<>>)
    ELSE NoParse

ParseMembers(toks, acc) ==
    IF /\ Len(toks) >= 3
       /\ toks[1] \notin Structural
       /\ toks[2] = ":"
    THEN LET v == ParseValue(SubSeq(toks, 3, Len(toks)))
         IN  IF ~v.ok \/ v.rest = <<>> THEN NoParse
             ELSE LET got == WithField(acc, toks[1], v.value.kind)
                  IN  IF v.rest[1] = "}"
                      THEN [ok |-> TRUE, value |-> [kind |-> "object", fields |-> got],
                            rest |-> Tail(v.rest)]
                      ELSE IF v.rest[1] = ","
                           THEN ParseMembers(Tail(v.rest), got)
                           ELSE NoParse
    ELSE NoParse

\* JSON.parse on the texts of the model: the value when the whole text is
\* one JSON value, SyntaxError when it throws
JSONParse(text) ==
    LET v == ParseValue(text)
    IN  IF v.ok /\ v.rest = <<>> THEN v.value ELSE SyntaxError

\* A completion is [failed, hasText, text]: generateContent rejected, or it
\* resolved with a response whose text is absent (undefined) or a string.
\* response.text || '{}'
TextOrEmptyObject(resp) ==
    IF ~resp.hasText \/ resp.text = <<>> THEN <<"{", "}">> ELSE resp.text

\* the try/catch around JSON.parse: the value returned, or the Error thrown
ParseResponse(resp) ==
    LET v == JSONParse(TextOrEmptyObject(resp))
    IN  IF v = SyntaxError
        THEN [status |-> "threw", value |-> NullValue]
        ELSE [status |-> "returned", value |-> v]

\* analyzeProject after the await of generateContent: a rejected call
\* propagates, a resolved one goes through the try/catch
AnalyzeProject(resp) ==
    IF resp.failed
    THEN [status |-> "threw", value |-> NullValue]
    ELSE ParseResponse(resp)

(***************************************************************************)
(* analyzeProject: the prompt rendered from the AnalysisContext            *)
(*                                                                         *)
(* In the contexts of the prompt specification every text is a sequence of *)
(* characters, and keyFiles is the sequence of the [name, content] pairs   *)
(* that Object.entries yields (insertion order of the keys).               *)
(***************************************************************************)
\* project.files.slice(0, 100)
FileListLimit == 100

\* content.slice(0, 2000)
ContentLimit == 2000

\* null, for the fields description and language of a GithubRepo
NullText == <<"null">>

\* x || fallback, for x a string or null
OrElse(x, fallback) == IF x = NullText \/ x = <<>> THEN fallback ELSE x

\* Array.prototype.join on an array of strings
RECURSIVE Join(_, _)
Join(list, sep) ==
    IF list = <<>> THEN <<>>
    ELSE IF Len(list) = 1 THEN list[1]
         ELSE LET half == Len(list) \div 2
              IN  Join(SubSeq(list, 1, half), sep) \o sep
                    \o Join(SubSeq(list, half + 1, Len(list)), sep)

\* the fixed texts of the template of the github branch
RepoNameLabel ==
    <<"\n", " ", " ", " ", " ", " ", " ", "R", "e", "p", "o", " ", "N", "a",
      "m", "e", ":", " ">>

RepoDescriptionLabel ==
    <<"\n", " ", " ", " ", " ", " ", " ", "D", "e", "s", "c", "r", "i", "p",
      "t", "i", "o", "n", ":", " ">>

LanguageLabel ==
    <<"\n", " ", " ", " ", " ", " ", " ", "L", "a", "n", "g", "u", "a", "g",
      "e", ":", " ">>

TopicsLabel ==
    <<"\n", " ", " ", " ", " ", " ", " ", "T", "o", "p", "i", "c", "s", ":",
      " ">>

GithubSourceTail ==
    <<"\n", " ", " ", " ", " ", " ", " ", "S", "o", "u", "r", "c", "e", ":",
      " ", "G", "i", "t", "H", "u", "b", " ", "A", "P", "I", " ", "M", "e",
      "t", "a", "d", "a", "t", "a", "\n", " ", " ", " ", " ">>

\* 'No description provided'
NoDescriptionProvided ==
    <<"N", "o", " ", "d", "e", "s", "c", "r", "i", "p", "t", "i", "o", "n",
      " ", "p", "r", "o", "v", "i", "d", "e", "d">>

\* 'Unknown'
UnknownLanguage ==
    <<"U", "n", "k", "n", "o", "w", "n">>

\* ', ' of topics.join
CommaSpace ==
    <<",", " ">>

\* the fixed texts of the template of the local branch
ProjectNameLabel ==
    <<"\n", " ", " ", " ", " ", " ", " ", "P", "r", "o", "j", "e", "c", "t",
      " ", "N", "a", "m", "e", ":", " ">>

ProjectDescriptionLabel ==
    <<"\n", " ", " ", " ", " ", " ", " ", "D", "e", "s", "c", "r", "i", "p",
      "t", "i", "o", "n", ":", " ">>

FileStructureLabel ==
    <<"\n", " ", " ", " ", " ", " ", " ", "S", "o", "u", "r", "c", "e", ":",
      " ", "L", "o", "c", "a", "l", " ", "Z", "i", "p", " ", "U", "p", "l",
      "o", "a", "d", "\n", " ", " ", " ", " ", " ", " ", "\n", " ", " ", " ",
      " ", " ", " ", "F", "i", "l", "e", " ", "S", "t", "r", "u", "c", "t",
      "u", "r", "e", " ", "(", "p", "a", "r", "t", "i", "a", "l", ")", ":",
      "\n", " ", " ", " ", " ", " ", " ">>

KeyFileContentsLabel ==
    <<"\n", " ", " ", " ", " ", " ", " ", "\n", " ", " ", " ", " ", " ", " ",
      "K", "e", "y", " ", "F", "i", "l", "e", " ", "C", "o", "n", "t", "e",
      "n", "t", "s", ":", "\n", " ", " ", " ", " ", " ", " ">>

ContextTail ==
    <<"\n", " ", " ", " ", " ">>

\* 'Analyzed from local zip file'
AnalyzedFromLocalZip ==
    <<"A", "n", "a", "l", "y", "z", "e", "d", " ", "f", "r", "o", "m", " ",
      "l", "o", "c", "a", "l", " ", "z", "i", "p", " ", "f", "i", "l", "e">>

\* '\n'
NewLine ==
    <<"\n">>

\* the fixed texts of the block of a key file
BlockOpen ==
    <<"-", "-", "-", " ">>

BlockClose ==
    <<" ", "-", "-", "-", "\n">>

\* the fixed texts of the template of prompt
PromptHead ==
    <<"\n", " ", " ", " ", " ", "A", "n", "a", "l", "y", "z", "e", " ", "t",
      "h", "i", "s", " ", "s", "o", "f", "t", "w", "a", "r", "e", " ", "p",
      "r", "o", "j", "e", "c", "t", " ", "t", "o", " ", "p", "r", "o", "v",
      "i", "d", "e", " ", "a", " ", "t", "e", "c", "h", "n", "i", "c", "a",
      "l", " ", "e", "v", "a", "l", "u", "a", "t", "i", "o", "n", " ", "a",
      "n", "d", " ", "a", " ", "d", "e", "p", "l", "o", "y", "m", "e", "n",
      "t", " ", "s", "t", "r", "a", "t", "e", "g", "y", ".", "\n", " ", " ",
      " ", " ", "\n", " ", " ", " ", " ", "P", "r", "o", "j", "e", "c", "t",
      " ", "C", "o", "n", "t", "e", "x", "t", ":", "\n", " ", " ", " ", " ">>

PromptInstructions ==
    <<"\n", " ", " ", " ", " ", "\n", " ", " ", " ", " ", "R", "e", "t", "u",
      "r", "n", " ", "a", " ", "J", "S", "O", "N", " ", "o", "b", "j", "e",
      "c", "t", " ", "w", "i", "t", "h", ":", "\n", " ", " ", " ", " ", "1",
      ".", " ", "'", "s", "u", "m", "m", "a", "r", "y", "'", ":", " ", "A",
      " ", "c", "o", "n", "c", "i", "s", "e", " ", "s", "u", "m", "m", "a",
      "r", "y", ".", "\n", " ", " ", " ", " ", "2", ".", " ", "'", "k", "e",
      "y", "F", "e", "a", "t", "u", "r", "e", "s", "'", ":", " ", "L", "i",
      "s", "t", " ", "o", "f", " ", "4", " ", "k", "e", "y", " ", "f", "e",
      "a", "t", "u", "r", "e", "s", " ", "b", "a", "s", "e", "d", " ", "o",
      "n", " ", "t", "h", "e", " ", "f", "i", "l", "e", "s", " ", "o", "r",
      " ", "m", "e", "t", "a", "d", "a", "t", "a", ".", "\n", " ", " ", " ",
      " ", "3", ".", " ", "'", "t", "a", "r", "g", "e", "t", "A", "u", "d",
      "i", "e", "n", "c", "e", "'", ":", " ", "W", "h", "o", " ", "t", "h",
      "i", "s", " ", "i", "s", " ", "f", "o", "r", ".", "\n", " ", " ", " ",
      " ", "4", ".", " ", "'", "t", "e", "c", "h", "S", "t", "a", "c", "k",
      "R", "a", "t", "i", "n", "g", "'", ":", " ", "R", "a", "t", "i", "n",
      "g", "/", "E", "x", "p", "l", "a", "n", "a", "t", "i", "o", "n", " ",
      "o", "f", " ", "t", "h", "e", " ", "s", "t", "a", "c", "k", " ", "d",
      "e", "t", "e", "c", "t", "e", "d", ".", "\n", " ", " ", " ", " ", "5",
      ".", " ", "'", "s", "u", "g", "g", "e", "s", "t", "i", "o", "n", "s",
      "'", ":", " ", "3", " ", "i", "m", "p", "r", "o", "v", "e", "m", "e",
      "n", "t", "s", ".", "\n", " ", " ", " ", " ", "6", ".", " ", "'", "p",
      "r", "o", "j", "e", "c", "t", "T", "y", "p", "e", "'", ":", " ", "T",
      "h", "e", " ", "s", "p", "e", "c", "i", "f", "i", "c", " ", "t", "y",
      "p", "e", " ", "(", "e", ".", "g", ".", ",", " ", "\"", "R", "e", "a",
      "c", "t", " ", "S", "P", "A", "\"", ",", " ", "\"", "P", "y", "t", "h",
      "o", "n", " ", "F", "l", "a", "s", "k", " ", "A", "P", "I", "\"", ",",
      " ", "\"", "S", "t", "a", "t", "i", "c", " ", "H", "T", "M", "L", "\"",
      ",", " ", "\"", "N", "o", "d", "e", ".", "j", "s", " ", "S", "e", "r",
      "v", "i", "c", "e", "\"", ")", ".", "\n", " ", " ", " ", " ", "7", ".",
      " ", "'", "g", "i", "t", "h", "u", "b", "A", "c", "t", "i", "o", "n",
      "s", "W", "o", "r", "k", "f", "l", "o", "w", "'", ":", " ", "A", " ",
      "c", "o", "m", "p", "l", "e", "t", "e", ",", " ", "v", "a", "l", "i",
      "d", " ", "Y", "A", "M", "L", " ", "s", "t", "r", "i", "n", "g", " ",
      "f", "o", "r", " ", "a", " ", "G", "i", "t", "H", "u", "b", " ", "A",
      "c", "t", "i", "o", "n", "s", " ", "w", "o", "r", "k", "f", "l", "o",
      "w", " ", "t", "o", " ", "d", "e", "p", "l", "o", "y", " ", "t", "h",
      "i", "s", " ", "p", "r", "o", "j", "e", "c", "t", ".", " ", "I", "f",
      " ", "i", "t", "'", "s", " ", "a", " ", "l", "o", "c", "a", "l", " ",
      "z", "i", "p", ",", " ", "a", "s", "s", "u", "m", "e", " ", "i", "t",
      " ", "w", "i", "l", "l", " ", "b", "e", " ", "p", "u", "s", "h", "e",
      "d", " ", "t", "o", " ", "G", "i", "t", "H", "u", "b", " ", "M", "a",
      "i", "n", " ", "b", "r", "a", "n", "c", "h", ".", "\n", " ", " ">>

\* variant of ListedFiles without the slice
ListedFilesAll(project) == project.files

\* project.files.slice(0, 100)
ListedFiles(project) == Slice(project.files, 0, FileListLimit)

\* ${project.files.slice(0, 100).join('\n')}
FileListing(project) == Join(ListedFiles(project), NewLine)

\* variant of KeyFileBlock without the slice
KeyFileBlockWhole(kf) ==
    BlockOpen \o kf.name \o BlockClose \o kf.content \o NewLine

\* `--- ${name} ---\n${content.slice(0, 2000)}\n`
KeyFileBlock(kf) ==
    BlockOpen \o kf.name \o BlockClose \o Slice(kf.content, 0, ContentLimit) \o NewLine

\* Object.entries(project.keyFiles).map(...)
KeyFileBlocks(project) ==
    [i \in 1..Len(project.keyFiles) |-> KeyFileBlock(project.keyFiles[i])]

\* promptContext of the github branch
GithubPromptContext(repo) ==
    RepoNameLabel \o repo.full_name
      \o RepoDescriptionLabel \o OrElse(repo.description, NoDescriptionProvided)
      \o LanguageLabel \o OrElse(repo.language, UnknownLanguage)
      \o TopicsLabel \o Join(repo.topics, CommaSpace)
      \o GithubSourceTail

\* promptContext of the local branch
LocalPromptContext(project) ==
    ProjectNameLabel \o project.name
      \o ProjectDescriptionLabel \o OrElse(project.description, AnalyzedFromLocalZip)
      \o FileStructureLabel \o FileListing(project)
      \o KeyFileContentsLabel \o Join(KeyFileBlocks(project), NewLine)
      \o ContextTail

PromptContext(context) ==
    IF context.type = "github"
    THEN GithubPromptContext(context.data)
    ELSE LocalPromptContext(context.data)

\* the constant prompt
Prompt(context) == PromptHead \o PromptContext(context) \o PromptInstructions

\* what analyzeProject renders before the completion call: the prompt, and
\* for a local context the two interpolated values of its template
RenderedPrompt(context) ==
    [text    |-> Prompt(context),
     listing |-> IF context.type = "local" THEN FileListing(context.data) ELSE <<>>,
     blocks  |-> IF context.type = "local" THEN KeyFileBlocks(context.data) ELSE <<>>]

(***************************************************************************)
(* The component App: state, inputs and messages                           *)
(***************************************************************************)
VARIABLES
    user,           \* useState user: a User record or NoUser
    storage,        \* localStorage item 'gitlens_user'
    storageReads,   \* number of calls of localStorage.getItem so far
    afterLogout,    \* logout has run and no query has been started since
    showAuthModal,  \* useState showAuthModal
    query,          \* useState query
    projectData,    \* useState projectData: an AnalysisContext or NoContext
    analysis,       \* useState analysis: a parsed value or NullValue
    loading,        \* useState loading
    analyzing,      \* useState analyzing
    error,          \* useState error: a message or NoError
    tasks,          \* the asynchronous handler invocations, in start order
    projectBy,      \* the invocation whose setProjectData wrote projectData, or 0
    analysisBy,     \* the invocation whose setAnalysis wrote analysis, or 0
    projectSince,   \* the invocations in flight since whose start another
                    \* invocation has called setProjectData
    analysisSince,  \* the invocations in flight since whose start another
                    \* invocation has called setAnalysis
    arcFile,        \* archive specification: the uploaded file
    arcProject,     \* archive specification: the LocalProject built from it
    arcDone,        \* archive specification: the build has run
    arcAt,          \* archive specification: the entry whose read is awaited, or 0
    arcRead,        \* archive specification: the locals of the loop
    anResp,         \* analysis specification: the completion received
    anResult,       \* analysis specification: what analyzeProject did with it
    anDone,         \* analysis specification: analyzeProject has run
    prContext,      \* prompt specification: the context analyzeProject received
    prPrompt,       \* prompt specification: the prompt it rendered
    prDone          \* prompt specification: the prompt has been rendered

vars == <<user, storage, storageReads, afterLogout, showAuthModal, query, projectData, analysis,
          loading, analyzing, error, tasks, projectBy, analysisBy, projectSince,
          analysisSince, arcFile, arcProject,
          arcDone, arcAt, arcRead, anResp, anResult, anDone, prContext, prPrompt, prDone>>

uiVars == <<user, storage, storageReads, afterLogout, showAuthModal, query, projectData, analysis,
            loading, analyzing, error, tasks, projectBy, analysisBy, projectSince,
            analysisSince>>

arcVars == <<arcFile, arcProject, arcDone, arcAt, arcRead>>

anVars == <<anResp, anResult, anDone>>

prVars == <<prContext, prPrompt, prDone>>

\* error === null
NoError == "<null>"

\* 'Repositorio nao encontrado. Verifique se ele e publico.'
RepoNotFoundMsg == "Repositorio nao encontrado. Verifique se ele e publico."

\* "A analise de ZIP e um recurso Pro. Por favor, faca o upgrade da sua conta."
GatedFeatureMsg == "A analise de ZIP e um recurso Pro. Por favor, faca o upgrade da sua conta."

\* "Por favor, envie um arquivo .zip"
UnsupportedFileMsg == "Por favor, envie um arquivo .zip"

\* "Falha ao processar arquivo ZIP"
ZipFallbackMsg == "Falha ao processar arquivo ZIP"

\* "A analise de IA falhou. Verifique se a API_KEY esta configurada
\* corretamente no Netlify."
AIFailedMsg == "A analise de IA falhou. Verifique se a API_KEY esta configurada corretamente no Netlify."

\* "Faca upgrade para Pro para analisar arquivos ZIP locais."
UpgradeHintMsg == "Faca upgrade para Pro para analisar arquivos ZIP locais."

\* err.message of the rejections of the external calls (set by the
\* environment, not by the code)
FetchRejectedMsg == "Failed to fetch"

BodyRejectedMsg == "Unexpected end of JSON input"

\* err.message of a rejected archive call: some errors carry no message
ArchiveRejectedMsgs == {"", "Corrupted zip"}

\* user === null
NoUser == [id |-> <<>>, email |-> <<>>, name |-> <<>>, tier |-> "none",
           avatarUrl |-> <<>>]

\* projectData === null
NoContext == [type |-> "null", data |-> <<>>]

\* `https://api.dicebear.com/7.x/avataaars/svg?seed=`
AvatarPrefix ==
    <<"h", "t", "t", "p", "s", ":", "/", "/", "a", "p", "i", ".", "d", "i",
      "c", "e", "b", "e", "a", "r", ".", "c", "o", "m", "/", "7", ".", "x",
      "/", "a", "v", "a", "t", "a", "a", "a", "r", "s", "/", "s", "v", "g",
      "?", "s", "e", "e", "d", "=">>

GithubPrefix == <<"h", "t", "t", "p", "s", ":", "/", "/", "g", "i", "t", "h", "u", "b", ".", "c", "o", "m", "/">>

\* email.split('@')[0]
LocalPart(email) ==
    LET ats == {i \in 1..Len(email) : email[i] = "@"}
    IN  IF ats = {} THEN email
        ELSE LET first == CHOOSE i \in ats : \A j \in ats : i <= j
             IN  SubSeq(email, 1, first - 1)

\* variant of NewUser that creates the user with tier 'pro'
NewUserPro(id, email) ==
    [id |-> id, email |-> email, name |-> LocalPart(email), tier |-> "pro",
     avatarUrl |-> AvatarPrefix \o email]

\* the object newUser of login
NewUser(id, email) ==
    [id |-> id, email |-> email, name |-> LocalPart(email), tier |-> "free",
     avatarUrl |-> AvatarPrefix \o email]

\* JSON.stringify(user): the values of the properties in insertion order
Stringify(u) == <<u.id, u.email, u.name, u.tier, u.avatarUrl>>

\* JSON.parse(saved) of a stored profile
ParseUser(s) ==
    [id |-> s[1], email |-> s[2], name |-> s[3], tier |-> s[4], avatarUrl |-> s[5]]

NoItem == [present |-> FALSE, value |-> <<>>]

\* variant of StoreEffect without the removeItem branch
StoreEffectSetOnly(u) ==
    IF u # NoUser THEN [present |-> TRUE, value |-> Stringify(u)] ELSE storage

\* the effect on [user]: setItem when a user is logged in, removeItem otherwise
StoreEffect(u) ==
    IF u # NoUser THEN [present |-> TRUE, value |-> Stringify(u)] ELSE NoItem

\* variant of IsPro that forgets the tier
IsLoggedIn(u) == u # NoUser

\* !user || user.tier !== 'pro', negated
IsPro(u) == u # NoUser /\ u.tier = "pro"

\* repoPath of fetchRepoData
RepoPath(q) ==
    LET p == Trim(ReplaceFirst(q, GithubPrefix, <<>>))
    IN  IF EndsWith(p, <<"/">>) THEN Slice(p, 0, Len(p) - 1) ELSE p

\* disabled={loading} of the submit button of the form
SubmitEnabled == ~loading

(***************************************************************************)
(* Inputs of the model                                                     *)
(***************************************************************************)
Digits == <<"0", "1", "2", "3", "4", "5", "6", "7", "8", "9">>

\* a text of n characters, the character at position i showing i
TextOfLength(n) == [i \in 1..n |-> Digits[(i % 10) + 1]]

FileEntry(path, content) == [path |-> path, dir |-> FALSE, content |-> content]

DirEntry(path) == [path |-> path, dir |-> TRUE, content |-> <<>>]

\* e-mail addresses typed into the login dialog
Emails == { <<"d", "e", "v", "@", "x">> }

\* values of Math.random().toString(36).substr(2, 9)
RandomIds == { <<"k", "7">> }

\* the identifier of the profile a previous session may have stored
StoredIds == { <<"p", "3">> }

\* texts typed into the query field
\* (the second one pasted with a byte order mark before and an ideographic
\* space after the URL)
Queries == { <<>>,
             <<"U+FEFF", "h", "t", "t", "p", "s", ":", "/", "/", "g", "i", "t", "h", "u", "b",
               ".", "c", "o", "m", "/", "a", "/", "b", "/", "U+3000">> }

\* records returned by the repository lookup ("<null>" stands for null)
Repos == { [id |-> 1, full_name |-> "octocat/Hello-World", description |-> "demo",
            language |-> "TypeScript", topics |-> <<"demo">>,
            stargazers_count |-> 1500, forks_count |-> 200],
           [id |-> 2, full_name |-> "a/b", description |-> "<null>",
            language |-> "<null>", topics |-> <<>>,
            stargazers_count |-> 0, forks_count |-> 0] }

\* files chosen or dropped: name, entries of the container, and what is
\* damaged in it ("container": loadAsync rejects, "entry": async rejects)
UploadFiles == {
    [name |-> <<"a", "p", "p", ".", "z", "i", "p">>,
     entries |-> << FileEntry(<<"R", "E", "A", "D", "M", "E", ".", "m", "d">>, TextOfLength(12)),
                    FileEntry(<<"a", "p", "p", "/", "p", "a", "c", "k", "a", "g", "e", ".", "j", "s", "o", "n">>, TextOfLength(8)),
                    DirEntry(<<"s", "r", "c", "/">>),
                    FileEntry(<<"g", "o", ".", "m", "o", "d">>, TextOfLength(3)) >>,
     damaged |-> "none"],
    [name |-> <<"m", "y", ".", "z", "i", "p", ".", "v", "2", ".", "z", "i", "p">>,
     entries |-> << FileEntry(<<"n", "o", "t", "e", "s", ".", "t", "x", "t">>, TextOfLength(5)) >>,
     damaged |-> "none"],
    [name |-> <<"a", ".", "t", "x", "t">>,
     entries |-> <<>>,
     damaged |-> "none"],
    [name |-> <<"b", "a", "d", ".", "z", "i", "p">>,
     entries |-> <<>>,
     damaged |-> "container"],
    [name |-> <<"c", "u", "t", ".", "z", "i", "p">>,
     entries |-> << FileEntry(<<"g", "o", ".", "m", "o", "d">>, TextOfLength(3)) >>,
     damaged |-> "entry"] }

FullObjectText ==
    <<"{", "summary", ":", "str", ",", "keyFeatures", ":", "arr4", ",",
      "targetAudience", ":", "str", ",", "techStackRating", ":", "str", ",",
      "suggestions", ":", "arr3", ",", "projectType", ":", "str", ",",
      "githubActionsWorkflow", ":", "str", "}">>

\* the same object without the member githubActionsWorkflow
PartialObjectText ==
    <<"{", "summary", ":", "str", ",", "keyFeatures", ":", "arr4", ",",
      "targetAudience", ":", "str", ",", "techStackRating", ":", "str", ",",
      "suggestions", ":", "arr3", ",", "projectType", ":", "str", "}">>

\* outcomes of ai.models.generateContent
Completions == {
    [failed |-> TRUE,  hasText |-> FALSE, text |-> <<>>],
    [failed |-> FALSE, hasText |-> TRUE,  text |-> FullObjectText],
    [failed |-> FALSE, hasText |-> TRUE,  text |-> PartialObjectText],
    [failed |-> FALSE, hasText |-> TRUE,  text |-> <<"null">>],
    [failed |-> FALSE, hasText |-> TRUE,  text |-> <<"sorry", "I", "cannot", "help">>] }

(***************************************************************************)
(* Asynchronous handler invocations                                        *)
(*                                                                         *)
(* pc is the await at which the invocation is suspended: "lookup" (fetch), *)
(* "json" (response.json()), "decode" (zip.loadAsync), "read" (the await   *)
(* of async('string') of the entry at position `at`, with the locals of    *)
(* the loop in `read`), "ai" (analyzeProject inside triggerAnalysis), or   *)
(* "done".  fault and resp record what the external calls delivered to     *)
(* the invocation, result, msg and the three counters what it did.         *)
(***************************************************************************)
NoFile == [name |-> <<>>, entries |-> <<>>, damaged |-> "none"]

NoCompletion == [failed |-> FALSE, hasText |-> FALSE, text |-> <<>>]

NoResult == [status |-> "pending", value |-> NullValue]

\* no prompt rendered yet
NoPrompt == [text |-> <<>>, listing |-> <<>>, blocks |-> <<>>]

NewTask(kind, pc, path, file) ==
    [kind |-> kind, pc |-> pc, path |-> path, file |-> file, ctx |-> NoContext,
     at |-> 0, read |-> NoneRead,
     fault |-> "none", resp |-> NoCompletion, result |-> NoResult, msg |-> NoError,
     lookups |-> IF kind = "github" THEN 1 ELSE 0,
     decodes |-> IF pc = "decode" THEN 1 ELSE 0,
     aiCalls |-> 0]

\* variant of GithubContext that keeps only the fields the prompt reads
GithubContextPromptFields(repo) ==
    [type |-> "github",
     data |-> [full_name |-> repo.full_name, description |-> repo.description,
               language |-> repo.language, topics |-> repo.topics]]

\* const context = { type: 'github', data }
GithubContext(repo) == [type |-> "github", data |-> repo]

\* const context = { type: 'local', data: localProject }
LocalContext(file, read) ==
    [type |-> "local", data |-> LocalProjectOf(file.name, file.entries, read)]

\* err.message || "Falha ao processar arquivo ZIP"
ZipErrorMessage(m) == IF m = "" THEN ZipFallbackMsg ELSE m

\* variant of AcceptedName that takes a file of any name
AcceptedAnyName(file) == Len(file.name) >= 0

\* !file.name.endsWith('.zip'), negated
AcceptedName(file) == EndsWith(file.name, DotZip)

TaskIds == 1..Len(tasks)

\* The record of the calls of setProjectData and setAnalysis that a step
\* makes: p, a are the invocation that calls setProjectData, setAnalysis in
\* the step, or 0.  Every other invocation in flight has then seen the call
\* since its start; an invocation that ends leaves the record.
Since(p, a) ==
    LET others(t) == IF t = 0 THEN {} ELSE TaskIds \ {t}
        inFlight(set) == {u \in set : tasks'[u].pc # "done"}
    IN  /\ projectSince' = inFlight(projectSince \cup others(p))
        /\ analysisSince' = inFlight(analysisSince \cup others(a))

(***************************************************************************)
(* Initial state: the component is mounted; the user is read from          *)
(* localStorage, and the effect on [user] has written it back              *)
(***************************************************************************)
\* what a previous session may have left under the key 'gitlens_user'
StoredProfiles ==
    {NoItem} \cup
    { [present |-> TRUE, value |-> Stringify([NewUser(id, email) EXCEPT !.tier = tier])] :
        id \in StoredIds, email \in Emails, tier \in {"free", "pro"} }

\* the initializer of useState for user
InitialUser(item) == IF item.present THEN ParseUser(item.value) ELSE NoUser

Init ==
    /\ storage \in StoredProfiles
    /\ storageReads = 1
    /\ afterLogout = FALSE
    /\ user = InitialUser(storage)
    /\ showAuthModal = FALSE
    /\ query = <<>>
    /\ projectData = NoContext
    /\ analysis = NullValue
    /\ loading = FALSE
    /\ analyzing = FALSE
    /\ error = NoError
    /\ tasks = <<>>
    /\ projectBy = 0
    /\ analysisBy = 0
    /\ projectSince = {}
    /\ analysisSince = {}
    /\ arcFile = NoFile
    /\ arcProject = LocalProjectOf(<<>>, <<>>, NoneRead)
    /\ arcDone = FALSE
    /\ arcAt = 0
    /\ arcRead = NoneRead
    /\ anResp = NoCompletion
    /\ anResult = NoResult
    /\ anDone = FALSE
    /\ prContext = NoContext
    /\ prPrompt = NoPrompt
    /\ prDone = FALSE

(***************************************************************************)
(* Session handlers                                                        *)
(***************************************************************************)
\* onClick of the buttons that open the login dialog; they are rendered,
\* or act, only while no user is logged in
OpenAuthModal ==
    /\ user = NoUser
    /\ showAuthModal' = TRUE
    /\ UNCHANGED <<user, storage, query, projectData, analysis, loading, analyzing,
                   error, tasks, projectBy, analysisBy, arcVars, anVars, prVars,
                   storageReads, afterLogout>>
    /\ Since(0, 0)

\* onClick of the backdrop and of the close button of the dialog
CloseAuthModal ==
    /\ showAuthModal
    /\ showAuthModal' = FALSE
    /\ UNCHANGED <<user, storage, query, projectData, analysis, loading, analyzing,
                   error, tasks, projectBy, analysisBy, arcVars, anVars, prVars,
                   storageReads, afterLogout>>
    /\ Since(0, 0)

\* login, called from the dialog
Login(id, email) ==
    /\ showAuthModal
    /\ user' = NewUser(id, email)
    /\ showAuthModal' = FALSE
    /\ storage' = StoreEffect(user')
    /\ UNCHANGED <<query, projectData, analysis, loading, analyzing, error, tasks,
                   projectBy, analysisBy, arcVars, anVars, prVars,
                   storageReads, afterLogout>>
    /\ Since(0, 0)

\* logout, called from the user menu, which is rendered for a logged-in user
Logout ==
    /\ user # NoUser
    /\ user' = NoUser
    /\ projectData' = NoContext
    /\ analysis' = NullValue
    /\ projectBy' = 0
    /\ analysisBy' = 0
    /\ storage' = StoreEffect(user')
    /\ afterLogout' = TRUE
    /\ UNCHANGED <<showAuthModal, query, loading, analyzing, error, tasks, arcVars, anVars, prVars,
                   storageReads>>
    /\ Since(0, 0)

\* upgrade
UpgradedUser(u) == IF u # NoUser THEN [u EXCEPT !.tier = "pro"] ELSE u

\* onClick of the subscribe button of the Pro plan, which calls upgrade
Subscribe ==
    /\ IF user = NoUser
       THEN showAuthModal' = TRUE /\ UNCHANGED <<user, storage>>
       ELSE IF user.tier = "free"
            THEN /\ user' = UpgradedUser(user)
                 /\ storage' = StoreEffect(user')
                 /\ UNCHANGED showAuthModal
            ELSE UNCHANGED <<user, storage, showAuthModal>>
    /\ UNCHANGED <<query, projectData, analysis, loading, analyzing, error, tasks,
                   projectBy, analysisBy, arcVars, anVars, prVars,
                   storageReads, afterLogout>>
    /\ Since(0, 0)

\* onChange of the query field
SetQuery(q) ==
    /\ query' = q
    /\ UNCHANGED <<user, storage, showAuthModal, projectData, analysis, loading,
                   analyzing, error, tasks, projectBy, analysisBy, arcVars, anVars, prVars,
                   storageReads, afterLogout>>
    /\ Since(0, 0)

\* onClick of the upload zone: opens the file picker for a pro user, sets
\* an error otherwise
ClickUploadZone ==
    /\ IF IsPro(user) THEN UNCHANGED error ELSE error' = UpgradeHintMsg
    /\ UNCHANGED <<user, storage, showAuthModal, query, projectData, analysis,
                   loading, analyzing, tasks, projectBy, analysisBy, arcVars, anVars, prVars,
                   storageReads, afterLogout>>
    /\ Since(0, 0)

(***************************************************************************)
(* Query handlers and their continuations                                  *)
(***************************************************************************)
\* the invocation ends: its locals are gone, what it did is kept
Ended(task, fault, msg) ==
    [task EXCEPT !.pc = "done", !.fault = fault, !.msg = msg, !.path = <<>>,
                 !.file = NoFile, !.ctx = NoContext, !.at = 0, !.read = NoneRead]

Finish(t, fault, msg) == [tasks EXCEPT ![t] = Ended(@, fault, msg)]

\* variant of FetchRepoData without setAnalysis(null)
FetchRepoDataKeepsAnalysis ==
    /\ SubmitEnabled
    /\ IF query = <<>>
       THEN UNCHANGED <<loading, error, projectData, analysis, projectBy,
                        analysisBy, tasks, afterLogout>>
       ELSE /\ Len(tasks) < MaxTasks
            /\ loading' = TRUE
            /\ error' = NoError
            /\ projectData' = NoContext
            /\ projectBy' = 0
            /\ afterLogout' = FALSE
            /\ tasks' = Append(tasks, NewTask("github", "lookup", RepoPath(query), NoFile))
            /\ UNCHANGED <<analysis, analysisBy>>
    /\ UNCHANGED <<user, storage, showAuthModal, query, analyzing, arcVars, anVars, prVars,
                   storageReads>>
    /\ Since(0, 0)

\* variant of FetchRepoData without the early return on an empty query
FetchRepoDataNoGuard ==
    /\ SubmitEnabled
    /\ Len(tasks) < MaxTasks
    /\ loading' = TRUE
    /\ error' = NoError
    /\ projectData' = NoContext
    /\ analysis' = NullValue
    /\ projectBy' = 0
    /\ analysisBy' = 0
    /\ afterLogout' = FALSE
    /\ tasks' = Append(tasks, NewTask("github", "lookup", RepoPath(query), NoFile))
    /\ UNCHANGED <<user, storage, showAuthModal, query, analyzing, arcVars, anVars, prVars,
                   storageReads>>
    /\ Since(0, 0)

\* variant of FetchRepoData without setProjectData(null)
FetchRepoDataKeepsProject ==
    /\ SubmitEnabled
    /\ IF query = <<>>
       THEN UNCHANGED <<loading, error, projectData, analysis, projectBy,
                        analysisBy, tasks, afterLogout>>
       ELSE /\ Len(tasks) < MaxTasks
            /\ loading' = TRUE
            /\ error' = NoError
            /\ analysis' = NullValue
            /\ analysisBy' = 0
            /\ afterLogout' = FALSE
            /\ tasks' = Append(tasks, NewTask("github", "lookup", RepoPath(query), NoFile))
            /\ UNCHANGED <<projectData, projectBy>>
    /\ UNCHANGED <<user, storage, showAuthModal, query, analyzing, arcVars, anVars, prVars,
                   storageReads>>
    /\ Since(0, 0)

\* fetchRepoData up to the await of fetch (submit of the form; the submit
\* button is disabled while loading)
FetchRepoData ==
    /\ SubmitEnabled
    /\ IF query = <<>>
       THEN UNCHANGED <<loading, error, projectData, analysis, projectBy,
                        analysisBy, tasks, afterLogout>>
       ELSE /\ Len(tasks) < MaxTasks
            /\ loading' = TRUE
            /\ error' = NoError
            /\ projectData' = NoContext
            /\ analysis' = NullValue
            /\ projectBy' = 0
            /\ analysisBy' = 0
            /\ afterLogout' = FALSE
            /\ tasks' = Append(tasks, NewTask("github", "lookup", RepoPath(query), NoFile))
    /\ UNCHANGED <<user, storage, showAuthModal, query, analyzing, arcVars, anVars, prVars,
                   storageReads>>
    /\ Since(0, 0)

\* variant of LookupReturns that calls fetch once more after a rejection
LookupReturnsRetrying(t, outcome) ==
    /\ t \in TaskIds
    /\ tasks[t].pc = "lookup"
    /\ CASE outcome = "ok" ->
              /\ tasks' = [tasks EXCEPT ![t].pc = "json"]
              /\ UNCHANGED <<error, loading>>
         [] outcome = "notOk" ->
              /\ error' = RepoNotFoundMsg
              /\ loading' = FALSE
              /\ tasks' = Finish(t, "notOk", RepoNotFoundMsg)
         [] outcome = "rejected" ->
              IF tasks[t].lookups < 2
              THEN /\ tasks' = [tasks EXCEPT ![t].lookups = @ + 1]
                   /\ UNCHANGED <<error, loading>>
              ELSE /\ error' = FetchRejectedMsg
                   /\ loading' = FALSE
                   /\ tasks' = Finish(t, "fetchRejected", FetchRejectedMsg)
    /\ UNCHANGED <<user, storage, showAuthModal, query, projectData, analysis,
                   analyzing, projectBy, analysisBy, arcVars, anVars, prVars,
                   storageReads, afterLogout>>
    /\ Since(0, 0)

\* fetch settles: rejected, resolved with !response.ok, or resolved ok
LookupReturns(t, outcome) ==
    /\ t \in TaskIds
    /\ tasks[t].pc = "lookup"
    /\ CASE outcome = "ok" ->
              /\ tasks' = [tasks EXCEPT ![t].pc = "json"]
              /\ UNCHANGED <<error, loading>>
         [] outcome = "notOk" ->
              /\ error' = RepoNotFoundMsg
              /\ loading' = FALSE
              /\ tasks' = Finish(t, "notOk", RepoNotFoundMsg)
         [] outcome = "rejected" ->
              /\ error' = FetchRejectedMsg
              /\ loading' = FALSE
              /\ tasks' = Finish(t, "fetchRejected", FetchRejectedMsg)
    /\ UNCHANGED <<user, storage, showAuthModal, query, projectData, analysis,
                   analyzing, projectBy, analysisBy, arcVars, anVars, prVars,
                   storageReads, afterLogout>>
    /\ Since(0, 0)

\* response.json() rejects: catch and finally of fetchRepoData
BodyRejected(t) ==
    /\ t \in TaskIds
    /\ tasks[t].pc = "json"
    /\ error' = BodyRejectedMsg
    /\ loading' = FALSE
    /\ tasks' = Finish(t, "bodyRejected", BodyRejectedMsg)
    /\ UNCHANGED <<user, storage, showAuthModal, query, projectData, analysis,
                   analyzing, projectBy, analysisBy, arcVars, anVars, prVars,
                   storageReads, afterLogout>>
    /\ Since(0, 0)

\* variant of StoreContext that awaits triggerAnalysis: the finally clause
\* has not run yet
StoreContextAwaited(t, ctx) ==
    /\ projectData' = ctx
    /\ projectBy' = t
    /\ analyzing' = TRUE
    /\ loading' = loading
    /\ tasks' = [tasks EXCEPT ![t].pc = "ai", ![t].ctx = ctx, ![t].aiCalls = @ + 1]

\* setProjectData(context); triggerAnalysis(context) up to its await;
\* finally setLoading(false)
StoreContext(t, ctx) ==
    /\ projectData' = ctx
    /\ projectBy' = t
    /\ analyzing' = TRUE
    /\ loading' = FALSE
    /\ tasks' = [tasks EXCEPT ![t].pc = "ai", ![t].ctx = ctx, ![t].aiCalls = @ + 1]

\* response.json() resolves with the record of the repository
BodyReturns(t, repo) ==
    /\ t \in TaskIds
    /\ tasks[t].pc = "json"
    /\ StoreContext(t, GithubContext(repo))
    /\ UNCHANGED <<user, storage, showAuthModal, query, analysis, error,
                   analysisBy, arcVars, anVars, prVars,
                   storageReads, afterLogout>>
    /\ Since(t, 0)

\* variant of ProcessZipFile that tests the tier after the resets
ProcessZipFileGateAfterReset(file) ==
    /\ IF ~IsPro(user)
       THEN /\ error' = GatedFeatureMsg
            /\ projectData' = NoContext
            /\ analysis' = NullValue
            /\ projectBy' = 0
            /\ analysisBy' = 0
            /\ UNCHANGED <<loading, tasks, afterLogout>>
       ELSE /\ Len(tasks) < MaxTasks
            /\ projectData' = NoContext
            /\ analysis' = NullValue
            /\ projectBy' = 0
            /\ analysisBy' = 0
            /\ afterLogout' = FALSE
            /\ IF ~AcceptedName(file)
               THEN /\ error' = UnsupportedFileMsg
                    /\ loading' = FALSE
                    /\ tasks' = Append(tasks,
                           Ended(NewTask("zip", "done", <<>>, file),
                                 "unsupportedName", UnsupportedFileMsg))
               ELSE /\ error' = NoError
                    /\ loading' = TRUE
                    /\ tasks' = Append(tasks, NewTask("zip", "decode", <<>>, file))
    /\ UNCHANGED <<user, storage, showAuthModal, query, analyzing, arcVars, anVars, prVars,
                   storageReads>>
    /\ Since(0, 0)

\* variant of ProcessZipFile without setProjectData(null)
ProcessZipFileKeepsProject(file) ==
    /\ IF ~IsPro(user)
       THEN /\ error' = GatedFeatureMsg
            /\ UNCHANGED <<loading, projectData, analysis, projectBy, analysisBy, tasks,
                           afterLogout>>
       ELSE /\ Len(tasks) < MaxTasks
            /\ analysis' = NullValue
            /\ analysisBy' = 0
            /\ UNCHANGED <<projectData, projectBy>>
            /\ afterLogout' = FALSE
            /\ IF ~AcceptedName(file)
               THEN /\ error' = UnsupportedFileMsg
                    /\ loading' = FALSE
                    /\ tasks' = Append(tasks,
                           Ended(NewTask("zip", "done", <<>>, file),
                                 "unsupportedName", UnsupportedFileMsg))
               ELSE /\ error' = NoError
                    /\ loading' = TRUE
                    /\ tasks' = Append(tasks, NewTask("zip", "decode", <<>>, file))
    /\ UNCHANGED <<user, storage, showAuthModal, query, analyzing, arcVars, anVars, prVars,
                   storageReads>>
    /\ Since(0, 0)

\* variant of ProcessZipFile without setAnalysis(null)
ProcessZipFileKeepsAnalysis(file) ==
    /\ IF ~IsPro(user)
       THEN /\ error' = GatedFeatureMsg
            /\ UNCHANGED <<loading, projectData, analysis, projectBy, analysisBy, tasks,
                           afterLogout>>
       ELSE /\ Len(tasks) < MaxTasks
            /\ projectData' = NoContext
            /\ projectBy' = 0
            /\ UNCHANGED <<analysis, analysisBy>>
            /\ afterLogout' = FALSE
            /\ IF ~AcceptedName(file)
               THEN /\ error' = UnsupportedFileMsg
                    /\ loading' = FALSE
                    /\ tasks' = Append(tasks,
                           Ended(NewTask("zip", "done", <<>>, file),
                                 "unsupportedName", UnsupportedFileMsg))
               ELSE /\ error' = NoError
                    /\ loading' = TRUE
                    /\ tasks' = Append(tasks, NewTask("zip", "decode", <<>>, file))
    /\ UNCHANGED <<user, storage, showAuthModal, query, analyzing, arcVars, anVars, prVars,
                   storageReads>>
    /\ Since(0, 0)

\* processZipFile up to the await of zip.loadAsync (file picker or drop)
ProcessZipFile(file) ==
    /\ IF ~IsPro(user)
       THEN /\ error' = GatedFeatureMsg
            /\ UNCHANGED <<loading, projectData, analysis, projectBy, analysisBy, tasks,
                           afterLogout>>
       ELSE /\ Len(tasks) < MaxTasks
            /\ projectData' = NoContext
            /\ analysis' = NullValue
            /\ projectBy' = 0
            /\ analysisBy' = 0
            /\ afterLogout' = FALSE
            /\ IF ~AcceptedName(file)
               THEN /\ error' = UnsupportedFileMsg
                    /\ loading' = FALSE
                    /\ tasks' = Append(tasks,
                           Ended(NewTask("zip", "done", <<>>, file),
                                 "unsupportedName", UnsupportedFileMsg))
               ELSE /\ error' = NoError
                    /\ loading' = TRUE
                    /\ tasks' = Append(tasks, NewTask("zip", "decode", <<>>, file))
    /\ UNCHANGED <<user, storage, showAuthModal, query, analyzing, arcVars, anVars, prVars,
                   storageReads>>
    /\ Since(0, 0)

\* zip.loadAsync rejects, or the awaited async('string') of the loop
\* rejects: catch and finally of processZipFile
ArchiveRejected(t, m) ==
    /\ t \in TaskIds
    /\ \/ tasks[t].pc = "decode" /\ tasks[t].file.damaged = "container"
       \/ tasks[t].pc = "read" /\ tasks[t].file.damaged = "entry"
    /\ error' = ZipErrorMessage(m)
    /\ loading' = FALSE
    /\ tasks' = Finish(t, "archiveRejected", ZipErrorMessage(m))
    /\ UNCHANGED <<user, storage, showAuthModal, query, projectData, analysis,
                   analyzing, projectBy, analysisBy, arcVars, anVars, prVars,
                   storageReads, afterLogout>>
    /\ Since(0, 0)

\* zip.loadAsync resolves and the loop runs to the first entry it reads
DecodeReturns(t) ==
    /\ t \in TaskIds
    /\ tasks[t].pc = "decode"
    /\ tasks[t].file.damaged # "container"
    /\ NextKeyFile(tasks[t].file.entries, 0) # 0
    /\ tasks' = [tasks EXCEPT ![t].pc = "read",
                              ![t].at = NextKeyFile(tasks[t].file.entries, 0)]
    /\ UNCHANGED <<user, storage, showAuthModal, query, projectData, analysis,
                   loading, analyzing, error, projectBy, analysisBy, arcVars, anVars, prVars,
                   storageReads, afterLogout>>
    /\ Since(0, 0)

\* the awaited async('string') resolves and the loop runs on to the next
\* entry it reads
EntryReturns(t) ==
    /\ t \in TaskIds
    /\ tasks[t].pc = "read"
    /\ tasks[t].file.damaged # "entry"
    /\ NextKeyFile(tasks[t].file.entries, tasks[t].at) # 0
    /\ tasks' = [tasks EXCEPT
                    ![t].read = EntryRead(@, tasks[t].file.entries[tasks[t].at]),
                    ![t].at = NextKeyFile(tasks[t].file.entries, tasks[t].at)]
    /\ UNCHANGED <<user, storage, showAuthModal, query, projectData, analysis,
                   loading, analyzing, error, projectBy, analysisBy, arcVars, anVars, prVars,
                   storageReads, afterLogout>>
    /\ Since(0, 0)

\* the loop runs to its end (after zip.loadAsync when it reads no entry,
\* after the last async('string') otherwise): the context is built and
\* stored
ArchiveRead(t) ==
    /\ t \in TaskIds
    /\ \/ /\ tasks[t].pc = "decode"
          /\ tasks[t].file.damaged # "container"
          /\ NextKeyFile(tasks[t].file.entries, 0) = 0
          /\ StoreContext(t, LocalContext(tasks[t].file, tasks[t].read))
       \/ /\ tasks[t].pc = "read"
          /\ tasks[t].file.damaged # "entry"
          /\ NextKeyFile(tasks[t].file.entries, tasks[t].at) = 0
          /\ StoreContext(t, LocalContext(tasks[t].file,
                    EntryRead(tasks[t].read, tasks[t].file.entries[tasks[t].at])))
    /\ UNCHANGED <<user, storage, showAuthModal, query, analysis, error,
                   analysisBy, arcVars, anVars, prVars,
                   storageReads, afterLogout>>
    /\ Since(t, 0)

\* variant of AnalysisReturns that applies a result only when no later
\* invocation has been started
AnalysisReturnsLatestOnly(t, resp) ==
    LET result == AnalyzeProject(resp)
    IN  /\ t \in TaskIds
        /\ tasks[t].pc = "ai"
        /\ IF result.status = "returned"
           THEN /\ IF t = Len(tasks)
                   THEN /\ analysis' = result.value
                        /\ analysisBy' = IF result.value = NullValue THEN 0 ELSE t
                   ELSE UNCHANGED <<analysis, analysisBy>>
                /\ UNCHANGED error
           ELSE /\ error' = AIFailedMsg
                /\ UNCHANGED <<analysis, analysisBy>>
        /\ analyzing' = FALSE
        /\ tasks' = [tasks EXCEPT ![t] =
                        [Ended(@, "none", IF result.status = "returned"
                                          THEN NoError ELSE AIFailedMsg)
                            EXCEPT !.resp = resp, !.result = result]]
        /\ UNCHANGED <<user, storage, showAuthModal, query, projectData, loading,
                       projectBy, arcVars, anVars, prVars,
                   storageReads, afterLogout>>
        /\ Since(0, IF result.status = "returned" /\ t = Len(tasks) THEN t ELSE 0)

\* the await of analyzeProject in triggerAnalysis settles
AnalysisReturns(t, resp) ==
    LET result == AnalyzeProject(resp)
    IN  /\ t \in TaskIds
        /\ tasks[t].pc = "ai"
        /\ IF result.status = "returned"
           THEN /\ analysis' = result.value
                /\ analysisBy' = IF result.value = NullValue THEN 0 ELSE t
                /\ UNCHANGED error
           ELSE /\ error' = AIFailedMsg
                /\ UNCHANGED <<analysis, analysisBy>>
        /\ analyzing' = FALSE
        /\ tasks' = [tasks EXCEPT ![t] =
                        [Ended(@, "none", IF result.status = "returned"
                                          THEN NoError ELSE AIFailedMsg)
                            EXCEPT !.resp = resp, !.result = result]]
        /\ UNCHANGED <<user, storage, showAuthModal, query, projectData, loading,
                       projectBy, arcVars, anVars, prVars,
                   storageReads, afterLogout>>
        /\ Since(0, IF result.status = "returned" THEN t ELSE 0)

Next ==
    \/ OpenAuthModal
    \/ CloseAuthModal
    \/ \E id \in RandomIds, email \in Emails : Login(id, email)
    \/ Logout
    \/ Subscribe
    \/ \E q \in Queries : SetQuery(q)
    \/ ClickUploadZone
    \/ FetchRepoData
    \/ \E t \in TaskIds, outcome \in {"ok", "notOk", "rejected"} : LookupReturns(t, outcome)
    \/ \E t \in TaskIds : BodyRejected(t)
    \/ \E t \in TaskIds, repo \in Repos : BodyReturns(t, repo)
    \/ \E file \in UploadFiles : ProcessZipFile(file)
    \/ \E t \in TaskIds, m \in ArchiveRejectedMsgs : ArchiveRejected(t, m)
    \/ \E t \in TaskIds : DecodeReturns(t)
    \/ \E t \in TaskIds : EntryReturns(t)
    \/ \E t \in TaskIds : ArchiveRead(t)
    \/ \E t \in TaskIds, resp \in Completions : AnalysisReturns(t, resp)

Spec == Init /\ [][Next]_vars

(***************************************************************************)
(* The query specification: the session stays as the component found it    *)
(* (no user, a free user or a pro user), and only queries, uploads and     *)
(* their continuations run                                                 *)
(***************************************************************************)
NextQueries ==
    \/ \E q \in Queries : SetQuery(q)
    \/ ClickUploadZone
    \/ FetchRepoData
    \/ \E t \in TaskIds, outcome \in {"ok", "notOk", "rejected"} : LookupReturns(t, outcome)
    \/ \E t \in TaskIds : BodyRejected(t)
    \/ \E t \in TaskIds, repo \in Repos : BodyReturns(t, repo)
    \/ \E file \in UploadFiles : ProcessZipFile(file)
    \/ \E t \in TaskIds, m \in ArchiveRejectedMsgs : ArchiveRejected(t, m)
    \/ \E t \in TaskIds : DecodeReturns(t)
    \/ \E t \in TaskIds : EntryReturns(t)
    \/ \E t \in TaskIds : ArchiveRead(t)
    \/ \E t \in TaskIds, resp \in Completions : AnalysisReturns(t, resp)

SpecQueries == Init /\ [][NextQueries]_vars

(***************************************************************************)
(* The archive specification: processZipFile's construction of the         *)
(* LocalProject, applied to every archive of at most MaxEntries entries    *)
(***************************************************************************)

\* entries an archive may hold
EntryPool == {
    FileEntry(<<"n", "o", "t", "e", "s", ".", "t", "x", "t">>, TextOfLength(5)),
    DirEntry(<<"s", "r", "c", "/">>),
    FileEntry(<<"R", "E", "A", "D", "M", "E", ".", "m", "d">>, TextOfLength(DescriptionLimit + 1)),
    FileEntry(<<"d", "o", "c", "s", "/", "r", "e", "a", "d", "m", "e", ".", "m", "d">>, TextOfLength(DescriptionLimit)),
    FileEntry(<<"p", "r", "o", "j", "/", "R", "E", "A", "D", "M", "E", ".", "m", "d">>, TextOfLength(12)),
    FileEntry(<<"a", "p", "p", "/", "p", "a", "c", "k", "a", "g", "e", ".", "j", "s", "o", "n">>, TextOfLength(8)),
    FileEntry(<<"a", "p", "i", "/", "D", "o", "c", "k", "e", "r", "f", "i", "l", "e">>, TextOfLength(4)),
    DirEntry(<<"p", "k", "g", "/", "g", "o", ".", "m", "o", "d", "/">>),
    FileEntry(<<"l", "i", "b", "/", "p", "a", "c", "U+212A", "a", "g", "e", ".", "j", "s", "o", "n">>, TextOfLength(6)),
    FileEntry(<<"g", "o", ".", "m", "o", "d">>, TextOfLength(3)) }

\* the keys of contents.files are distinct paths
Archives ==
    UNION { { a \in [1..n -> EntryPool] : \A i, j \in 1..n : a[i] = a[j] => i = j } :
            n \in 0..MaxEntries }

ZipNames == { <<"a", "p", "p", ".", "z", "i", "p">>, <<"m", "y", ".", "z", "i", "p", ".", "v", "2", ".", "z", "i", "p">> }

\* the component is mounted, no user is logged in, and an archive that
\* zip.loadAsync has decoded is at hand
ArcInit ==
    /\ storage = NoItem
    /\ storageReads = 1
    /\ afterLogout = FALSE
    /\ user = InitialUser(storage)
    /\ showAuthModal = FALSE
    /\ query = <<>>
    /\ projectData = NoContext
    /\ analysis = NullValue
    /\ loading = FALSE
    /\ analyzing = FALSE
    /\ error = NoError
    /\ tasks = <<>>
    /\ projectBy = 0
    /\ analysisBy = 0
    /\ projectSince = {}
    /\ analysisSince = {}
    /\ arcFile \in { [name |-> n, entries |-> a, damaged |-> "none"] :
                        n \in ZipNames, a \in Archives }
    /\ arcProject = LocalProjectOf(<<>>, <<>>, NoneRead)
    /\ arcDone = FALSE
    /\ arcAt = 0
    /\ arcRead = NoneRead
    /\ anResp = NoCompletion
    /\ anResult = NoResult
    /\ anDone = FALSE
    /\ prContext = NoContext
    /\ prPrompt = NoPrompt
    /\ prDone = FALSE

\* the loop of processZipFile starts on the decoded archive and runs to
\* the first entry it reads, or to its end when it reads none
LoopStarts ==
    /\ ~arcDone
    /\ arcAt = 0
    /\ IF NextKeyFile(arcFile.entries, 0) # 0
       THEN /\ arcAt' = NextKeyFile(arcFile.entries, 0)
            /\ UNCHANGED <<arcProject, arcDone>>
       ELSE /\ arcProject' = LocalContext(arcFile, arcRead).data
            /\ arcDone' = TRUE
            /\ UNCHANGED arcAt
    /\ UNCHANGED <<arcFile, arcRead, uiVars, anVars, prVars>>

\* the awaited async('string') resolves: the content is stored and the
\* loop runs to the next entry it reads, or to its end
LoopResumes ==
    /\ ~arcDone
    /\ arcAt # 0
    /\ arcRead' = EntryRead(arcRead, arcFile.entries[arcAt])
    /\ IF NextKeyFile(arcFile.entries, arcAt) # 0
       THEN /\ arcAt' = NextKeyFile(arcFile.entries, arcAt)
            /\ UNCHANGED <<arcProject, arcDone>>
       ELSE /\ arcProject' = LocalContext(arcFile, arcRead').data
            /\ arcDone' = TRUE
            /\ arcAt' = 0
    /\ UNCHANGED <<arcFile, uiVars, anVars, prVars>>

NextArchive ==
    \/ LoopStarts
    \/ LoopResumes

SpecArchive == ArcInit /\ [][NextArchive]_vars

(***************************************************************************)
(* The analysis specification: analyzeProject applied to every completion  *)
(* whose text is an object with some of the seven members, and to          *)
(* completions without usable text                                         *)
(***************************************************************************)
FieldOrder == <<"summary", "keyFeatures", "targetAudience", "techStackRating",
                "suggestions", "projectType", "githubActionsWorkflow">>

\* the value the backend writes for a member
ValueOf(field) ==
    IF field = "keyFeatures" THEN "arr4"
    ELSE IF field = "suggestions" THEN "arr3" ELSE "str"

\* the members of FieldOrder from position i on that are in present
RECURSIVE MembersText(_, _, _)
MembersText(i, present, first) ==
    IF i > Len(FieldOrder) THEN <<>>
    ELSE IF FieldOrder[i] \in present
         THEN (IF first THEN <<>> ELSE <<",">>)
                \o <<FieldOrder[i], ":", ValueOf(FieldOrder[i])>>
                \o MembersText(i + 1, present, FALSE)
         ELSE MembersText(i + 1, present, first)

ObjectText(present) == <<"{">> \o MembersText(1, present, TRUE) \o <<"}">>

\* the token of an array literal of n strings
ArrayToken(n) == <<"arr0", "arr1", "arr2", "arr3", "arr4", "arr5">>[n + 1]

\* the object with all seven members, keyFeatures of k and suggestions of s
\* strings
CountedObjectText(k, s) ==
    <<"{", "summary", ":", "str", ",", "keyFeatures", ":", ArrayToken(k), ",",
      "targetAudience", ":", "str", ",", "techStackRating", ":", "str", ",",
      "suggestions", ":", ArrayToken(s), ",", "projectType", ":", "str", ",",
      "githubActionsWorkflow", ":", "str", "}">>

AnalysisInputs ==
    { [failed |-> FALSE, hasText |-> TRUE, text |-> ObjectText(p)] :
        p \in SUBSET RequiredFields }
    \cup { [failed |-> FALSE, hasText |-> TRUE, text |-> CountedObjectText(k, s)] :
             k \in 0..5, s \in 0..5 }
    \cup Completions
    \cup { [failed |-> FALSE, hasText |-> FALSE, text |-> <<>>],
           [failed |-> FALSE, hasText |-> TRUE,  text |-> <<>>],
           [failed |-> FALSE, hasText |-> TRUE,  text |-> <<"{", "summary", ":", "str">>],
           [failed |-> FALSE, hasText |-> TRUE,
            text |-> <<"{", "summary", ":", "str", ",", "}">>],
           [failed |-> FALSE, hasText |-> TRUE,  text |-> <<"str">>],
           [failed |-> FALSE, hasText |-> TRUE,  text |-> <<"arr3">>],
           [failed |-> FALSE, hasText |-> TRUE,  text |-> <<"summary">>],
           [failed |-> FALSE, hasText |-> TRUE,  text |-> <<"null", "null">>],
           [failed |-> FALSE, hasText |-> TRUE,
            text |-> <<"{", "summary", ":", "null", "}">>],
           [failed |-> FALSE, hasText |-> TRUE,
            text |-> <<"{", "summary", ":", "{", "}", "}">>],
           [failed |-> FALSE, hasText |-> TRUE,
            text |-> <<"{", "summary", ":", "{", "text", ":", "str", "}", ",",
                       "keyFeatures", ":", "arr4", "}">>],
           [failed |-> FALSE, hasText |-> TRUE,
            text |-> <<"{", "summary", ":", "{", "text", ":", "str", "}">>],
           [failed |-> FALSE, hasText |-> TRUE,
            text |-> <<"{", "summary", ":", "str", "}", "}">>] }

\* the component is mounted, no user is logged in, and generateContent
\* has settled
AnInit ==
    /\ storage = NoItem
    /\ storageReads = 1
    /\ afterLogout = FALSE
    /\ user = InitialUser(storage)
    /\ showAuthModal = FALSE
    /\ query = <<>>
    /\ projectData = NoContext
    /\ analysis = NullValue
    /\ loading = FALSE
    /\ analyzing = FALSE
    /\ error = NoError
    /\ tasks = <<>>
    /\ projectBy = 0
    /\ analysisBy = 0
    /\ projectSince = {}
    /\ analysisSince = {}
    /\ arcFile = NoFile
    /\ arcProject = LocalProjectOf(<<>>, <<>>, NoneRead)
    /\ arcDone = FALSE
    /\ arcAt = 0
    /\ arcRead = NoneRead
    /\ anResp \in AnalysisInputs
    /\ anResult = NoResult
    /\ anDone = FALSE
    /\ prContext = NoContext
    /\ prPrompt = NoPrompt
    /\ prDone = FALSE

\* analyzeProject from the settling of generateContent to its return or throw
Analyze ==
    /\ ~anDone
    /\ anResult' = AnalyzeProject(anResp)
    /\ anDone' = TRUE
    /\ UNCHANGED <<anResp, uiVars, arcVars, prVars>>

SpecAnalyze == AnInit /\ [][Analyze]_vars

(***************************************************************************)
(* The prompt specification: the prompt analyzeProject renders, for local  *)
(* projects around the two limits of the template and for repositories     *)
(***************************************************************************)
\* the decimal digits of a natural number
RECURSIVE Decimal(_)
Decimal(n) ==
    IF n < 10 THEN <<Digits[n + 1]>>
    ELSE Decimal(n \div 10) \o <<Digits[(n % 10) + 1]>>

\* n distinct paths, the i-th showing i
PathList(n) == [i \in 1..n |-> <<"s", "r", "c", "/", "f">> \o Decimal(i)]

\* lengths of the files list: few, and around the limit of the listing
FileCounts == {0, 1, 2} \cup ((FileListLimit - 1)..(FileListLimit + MaxExcess))

\* lengths of a key file: empty, and around the limit of a block
ContentLengths == {0} \cup ((ContentLimit - 1)..(ContentLimit + MaxExcess))

KeyFileNames == { <<"p", "a", "c", "k", "a", "g", "e", ".", "j", "s", "o", "n">>,
                  <<"a", "p", "i", "/", "g", "o", ".", "m", "o", "d">>,
                  <<"p", "o", "m", ".", "x", "m", "l">> }

KeyFilePool == { [name |-> n, content |-> TextOfLength(l)] :
                    n \in KeyFileNames, l \in ContentLengths }

\* the entries of a keyFiles record: at most MaxKeyFiles, of distinct names
KeyFileLists ==
    UNION { { k \in [1..n -> KeyFilePool] :
                \A i, j \in 1..n : k[i].name = k[j].name => i = j } :
            n \in 0..MaxKeyFiles }

ProjectDescriptions == { <<>>, DescriptionPlaceholder }

\* the LocalProject values handed to analyzeProject
PromptProjects ==
    { [name |-> <<"a", "p", "p">>, description |-> d, files |-> PathList(n),
       keyFiles |-> k] :
        d \in ProjectDescriptions, n \in FileCounts,
        k \in {kl \in KeyFileLists : \A i \in 1..Len(kl) : Len(kl[i].content) = 0} }
    \cup
    { [name |-> <<"a", "p", "p">>, description |-> DescriptionPlaceholder,
       files |-> PathList(2), keyFiles |-> k] : k \in KeyFileLists }

\* the GithubRepo values handed to analyzeProject (the fields the prompt reads)
PromptRepos ==
    { [full_name |-> <<"a", "/", "b">>, description |-> d, language |-> l,
       topics |-> t] :
        d \in {NullText, <<>>, <<"d", "e", "m", "o">>},
        l \in {NullText, <<"G", "o">>},
        t \in {<<>>, << <<"c", "l", "i">> >>, << <<"c", "l", "i">>, <<"g", "i", "t">> >>} }

PromptContexts ==
    { [type |-> "local", data |-> p] : p \in PromptProjects }
    \cup { [type |-> "github", data |-> r] : r \in PromptRepos }

\* the component is mounted, no user is logged in, and analyzeProject has
\* been called with a context
PrInit ==
    /\ storage = NoItem
    /\ storageReads = 1
    /\ afterLogout = FALSE
    /\ user = InitialUser(storage)
    /\ showAuthModal = FALSE
    /\ query = <<>>
    /\ projectData = NoContext
    /\ analysis = NullValue
    /\ loading = FALSE
    /\ analyzing = FALSE
    /\ error = NoError
    /\ tasks = <<>>
    /\ projectBy = 0
    /\ analysisBy = 0
    /\ projectSince = {}
    /\ analysisSince = {}
    /\ arcFile = NoFile
    /\ arcProject = LocalProjectOf(<<>>, <<>>, NoneRead)
    /\ arcDone = FALSE
    /\ arcAt = 0
    /\ arcRead = NoneRead
    /\ anResp = NoCompletion
    /\ anResult = NoResult
    /\ anDone = FALSE
    /\ prContext \in PromptContexts
    /\ prPrompt = NoPrompt
    /\ prDone = FALSE

\* analyzeProject up to the call of generateContent
BuildPrompt ==
    /\ ~prDone
    /\ prPrompt' = RenderedPrompt(prContext)
    /\ prDone' = TRUE
    /\ UNCHANGED <<prContext, uiVars, arcVars, anVars>>

SpecPrompt == PrInit /\ [][BuildPrompt]_vars

(***************************************************************************)
(* Properties                                                              *)
(***************************************************************************)
\* a parsed value is an object without one of the seven members
Incomplete(v) == v.kind = "object" /\ ~(RequiredFields \subseteq DOMAIN v.fields)

\* the invocation has been through the await of analyzeProject
Analyzed(task) == task.pc = "done" /\ task.result.status # "pending"

\* the await of analyzeProject of invocation t settles in this step
AnalysisSettles(t) == tasks[t].pc = "ai" /\ tasks'[t].pc = "done"

\* C1: a completion whose text parses as an object lacking one of the seven
\* required members (the empty or absent text included) makes analyzeProject
\* fail, and the analysis state never holds an object lacking a member.
C1_MissingFieldRejected ==
    /\ \A t \in TaskIds :
          Analyzed(tasks[t]) /\ tasks[t].result.status = "returned"
             => ~Incomplete(tasks[t].result.value)
    /\ ~Incomplete(analysis)

\* C2: when the completion of an invocation returns a value after a later
\* query has been started, its value is written to the analysis state.
C2_StaleCompletionOverwrites ==
    [][\A t \in TaskIds :
          (/\ AnalysisSettles(t)
           /\ t < Len(tasks)
           /\ tasks'[t].result.status = "returned")
          => analysis' = tasks'[t].result.value]_vars

\* C2 witness: the second query's completion returned first, the first
\* query's completion returned last, and the analysis shown is the first's.
C2_Witness ==
    /\ Len(tasks) = 2
    /\ Analyzed(tasks[1]) /\ Analyzed(tasks[2])
    /\ tasks[2].result.status = "returned"
    /\ tasks[2].result.value # NullValue
    /\ tasks[1].result.value # tasks[2].result.value
    /\ analysisBy = 1
    /\ analysis = tasks[1].result.value

\* the entries of the uploaded archive that are README files
ReadmeEntries ==
    {i \in 1..Len(arcFile.entries) :
        /\ ~arcFile.entries[i].dir
        /\ ToLowerCase(LastSegment(arcFile.entries[i].path)) = ReadmeBaseName}

\* C3: with one README of length L in the archive, the description is the
\* first 300 characters followed by "..." when L > 300 and the content
\* itself when L <= 300; the placeholder appears only without a README.
C3_DescriptionFromReadme ==
    arcDone =>
        /\ \A i \in ReadmeEntries :
              ReadmeEntries = {i} =>
                 LET c == arcFile.entries[i].content
                 IN  arcProject.description =
                        IF Len(c) > DescriptionLimit
                        THEN SubSeq(c, 1, DescriptionLimit) \o Ellipsis
                        ELSE c
        /\ (arcProject.description = DescriptionPlaceholder => ReadmeEntries = {})

\* the recognized key file names, lowercased
RecognizedNames == {ToLowerCase(keyFilesToRead[i]) : i \in 1..Len(keyFilesToRead)}

\* C4: every non-directory entry whose lowercased last path segment is a
\* recognized key file name is stored in keyFiles under its full path with
\* its content.
C4_EveryKeyFileStored ==
    arcDone =>
        \A i \in 1..Len(arcFile.entries) :
            (/\ ~arcFile.entries[i].dir
             /\ ToLowerCase(LastSegment(arcFile.entries[i].path)) \in RecognizedNames)
            => \E k \in 1..Len(arcProject.keyFiles) :
                  /\ arcProject.keyFiles[k].name = arcFile.entries[i].path
                  /\ arcProject.keyFiles[k].content = arcFile.entries[i].content

\* the completion call of the invocation itself failed
RequestFailed(task) == Analyzed(task) /\ task.resp.failed

\* the completion call delivered a text that is no JSON, or an object
\* without one of the required members
ResponseInvalid(task) ==
    /\ Analyzed(task)
    /\ ~task.resp.failed
    /\ \/ JSONParse(TextOrEmptyObject(task.resp)) = SyntaxError
       \/ Incomplete(JSONParse(TextOrEmptyObject(task.resp)))

\* C5: a failed completion call and an invalid response never leave the
\* same error message.
C5_FailureKindsDistinguished ==
    \A t1, t2 \in TaskIds :
        RequestFailed(tasks[t1]) /\ ResponseInvalid(tasks[t2])
           => tasks[t1].msg # tasks[t2].msg

\* C6: an upload (drop, or a click on the upload zone) by no user or a user
\* whose tier is not 'pro' sets the error and starts nothing: no invocation
\* and no external call.
C6_GateRejectsSynchronously ==
    [][/\ \A f \in UploadFiles :
             (ProcessZipFile(f) /\ (user = NoUser \/ user.tier # "pro"))
             => /\ error' = GatedFeatureMsg
                /\ UNCHANGED <<tasks, loading, analyzing, projectData, analysis>>
       /\ (ClickUploadZone /\ (user = NoUser \/ user.tier # "pro"))
             => /\ error' = UpgradeHintMsg
                /\ UNCHANGED <<tasks, loading, analyzing, projectData, analysis>>]_vars

\* C6 witness: a non-pro upload has been rejected and nothing was started.
C6_Witness ==
    /\ error = GatedFeatureMsg
    /\ (user = NoUser \/ user.tier # "pro")
    /\ tasks = <<>>

\* the invocation met a failure of an external call or of its result
Failed(task) ==
    /\ task.pc = "done"
    /\ \/ task.fault # "none"
       \/ RequestFailed(task)
       \/ ResponseInvalid(task)

\* C7: every invocation that met a failure has set the error message.
C7_EveryFailureReported ==
    \A t \in TaskIds : Failed(tasks[t]) => tasks[t].msg # NoError

\* C8: every key of keyFiles is the path of a non-directory entry whose
\* lowercased last path segment is in the allow-list.
C8_OnlyAllowListedFiles ==
    arcDone =>
        \A k \in 1..Len(arcProject.keyFiles) :
            \E i \in 1..Len(arcFile.entries) :
                /\ arcFile.entries[i].path = arcProject.keyFiles[k].name
                /\ ~arcFile.entries[i].dir
                /\ Includes(keyFilesToRead,
                            ToLowerCase(LastSegment(arcFile.entries[i].path)))

\* C8 witness: an archive of which one entry was stored and another was not.
C8_Witness ==
    /\ arcDone
    /\ Len(arcProject.keyFiles) > 0
    /\ Len(arcProject.keyFiles) < Len(arcFile.entries)

\* C9: a completion whose text is not JSON makes analyzeProject throw;
\* after the step the analysis is null and the error is set.
C9_UnparseableTextFails ==
    [][\A t \in TaskIds :
          (/\ AnalysisSettles(t)
           /\ ~tasks'[t].resp.failed
           /\ JSONParse(TextOrEmptyObject(tasks'[t].resp)) = SyntaxError)
          => /\ tasks'[t].result.status = "threw"
             /\ analysis' = NullValue
             /\ error' # NoError]_vars

\* C9 as amended: as C9, except that the analysis is only known to be null
\* when no other invocation has called setAnalysis since this one started;
\* the step itself does not assign the analysis, and what is on display is
\* not a result of this invocation.
C9_UnparseableTextFailsAmended ==
    [][\A t \in TaskIds :
          (/\ AnalysisSettles(t)
           /\ ~tasks'[t].resp.failed
           /\ JSONParse(TextOrEmptyObject(tasks'[t].resp)) = SyntaxError)
          => /\ tasks'[t].result.status = "threw"
             /\ error' # NoError
             /\ analysis' = analysis
             /\ analysisBy' # t
             /\ (t \notin analysisSince => analysis' = NullValue)]_vars

\* C9 witness: a query whose completion was not JSON ended with the
\* analysis null and the error set.
C9_Witness ==
    \E t \in TaskIds :
        /\ Analyzed(tasks[t])
        /\ ~tasks[t].resp.failed
        /\ JSONParse(TextOrEmptyObject(tasks[t].resp)) = SyntaxError
        /\ analysis = NullValue
        /\ error = AIFailedMsg

\* C10: a lookup answered with a non-success status ends the query: the
\* error is the not-found message, projectData and analysis are null,
\* loading is false, and the query never calls the completion.
C10_NotFoundEndsQuery ==
    [][\A t \in TaskIds :
          (tasks[t].pc = "lookup" /\ tasks'[t].fault = "notOk")
          => /\ tasks'[t].pc = "done"
             /\ tasks'[t].aiCalls = 0
             /\ error' = RepoNotFoundMsg
             /\ projectData' = NoContext
             /\ analysis' = NullValue
             /\ loading' = FALSE]_vars

\* C10 as amended: as C10, except that projectData (analysis) is only known
\* to be null when no other invocation has called setProjectData
\* (setAnalysis) since the query started; the step itself assigns neither,
\* and what is on display is not a result of this query.
C10_NotFoundEndsQueryAmended ==
    [][\A t \in TaskIds :
          (tasks[t].pc = "lookup" /\ tasks'[t].fault = "notOk")
          => /\ tasks'[t].pc = "done"
             /\ tasks'[t].aiCalls = 0
             /\ error' = RepoNotFoundMsg
             /\ loading' = FALSE
             /\ projectData' = projectData
             /\ analysis' = analysis
             /\ projectBy' # t
             /\ analysisBy' # t
             /\ (t \notin projectSince => projectData' = NoContext)
             /\ (t \notin analysisSince => analysis' = NullValue)]_vars

\* C10 witness: a query ended by a non-success status, nothing shown.
C10_Witness ==
    \E t \in TaskIds :
        /\ tasks[t].pc = "done"
        /\ tasks[t].fault = "notOk"
        /\ tasks[t].aiCalls = 0
        /\ error = RepoNotFoundMsg
        /\ projectData = NoContext
        /\ analysis = NullValue
        /\ ~loading

\* C11: an upload by a pro user of a file whose name does not end in '.zip'
\* ends at once with the unsupported-file error: the archive is never
\* decoded, no context is stored and the completion is never called.
C11_UnsupportedNameRejected ==
    [][\A f \in UploadFiles :
          (ProcessZipFile(f) /\ IsPro(user) /\ ~EndsWith(f.name, DotZip))
          => /\ error' = UnsupportedFileMsg
             /\ loading' = FALSE
             /\ projectData' = NoContext
             /\ analysis' = NullValue
             /\ analyzing' = analyzing
             /\ Len(tasks') = Len(tasks) + 1
             /\ tasks'[Len(tasks')].pc = "done"
             /\ tasks'[Len(tasks')].decodes = 0
             /\ tasks'[Len(tasks')].aiCalls = 0]_vars

\* C11 witness: a pro user's upload of a file that is not a .zip has ended
\* with the unsupported-file error, nothing decoded and nothing analysed.
C11_Witness ==
    /\ IsPro(user)
    /\ error = UnsupportedFileMsg
    /\ projectData = NoContext
    /\ \E t \in TaskIds :
          /\ tasks[t].kind = "zip"
          /\ tasks[t].fault = "unsupportedName"
          /\ tasks[t].pc = "done"
          /\ tasks[t].decodes = 0
          /\ tasks[t].aiCalls = 0

\* the await of zip.loadAsync of invocation t settles in this step, for a
\* file whose container cannot be decoded
DecodeFails(t) ==
    /\ tasks[t].pc = "decode"
    /\ tasks[t].file.damaged = "container"
    /\ tasks'[t].pc # "decode"

\* C12: when zip.loadAsync rejects, the upload ends: the error is set,
\* projectData and analysis are null, loading is false, and the completion
\* is never called.
C12_DecodeFailureEndsUpload ==
    [][\A t \in TaskIds :
          DecodeFails(t)
          => /\ tasks'[t].pc = "done"
             /\ tasks'[t].aiCalls = 0
             /\ error' # NoError
             /\ loading' = FALSE
             /\ projectData' = NoContext
             /\ analysis' = NullValue]_vars

\* C12 as amended: as C12, except that projectData (analysis) is only known
\* to be null when no other invocation has called setProjectData
\* (setAnalysis) since the upload started; the step itself assigns neither,
\* and what is on display is not a result of this upload.
C12_DecodeFailureEndsUploadAmended ==
    [][\A t \in TaskIds :
          DecodeFails(t)
          => /\ tasks'[t].pc = "done"
             /\ tasks'[t].aiCalls = 0
             /\ error' # NoError
             /\ loading' = FALSE
             /\ projectData' = projectData
             /\ analysis' = analysis
             /\ projectBy' # t
             /\ analysisBy' # t
             /\ (t \notin projectSince => projectData' = NoContext)
             /\ (t \notin analysisSince => analysis' = NullValue)]_vars

\* C12 witness: an upload ended by a container that could not be decoded,
\* with the fallback message, nothing shown.
C12_Witness ==
    \E t \in TaskIds :
        /\ tasks[t].kind = "zip"
        /\ tasks[t].pc = "done"
        /\ tasks[t].fault = "archiveRejected"
        /\ tasks[t].decodes = 1
        /\ tasks[t].aiCalls = 0
        /\ error = ZipFallbackMsg
        /\ projectData = NoContext
        /\ analysis = NullValue
        /\ ~loading

\* the lines of a text, as String.prototype.split('\n') yields them (the
\* text is cut at a line break near its middle and the halves are split)
RECURSIVE SplitLines(_)
SplitLines(text) ==
    LET mid    == (Len(text) + 1) \div 2
        after  == {i \in mid..Len(text) : text[i] = "\n"}
        before == {i \in 1..(mid - 1) : text[i] = "\n"}
    IN  IF after = {} /\ before = {} THEN <<text>>
        ELSE LET p == IF after # {}
                      THEN CHOOSE i \in after : \A j \in after : i <= j
                      ELSE CHOOSE i \in before : \A j \in before : j <= i
             IN  SplitLines(SubSeq(text, 1, p - 1))
                   \o SplitLines(SubSeq(text, p + 1, Len(text)))

\* the first n elements of a sequence, all of them when it has fewer
FirstN(s, n) == IF Len(s) > n THEN SubSeq(s, 1, n) ELSE s

\* the position of the file listing in the prompt of a local project
ListingStart(project) ==
    Len(PromptHead) + Len(ProjectNameLabel) + Len(project.name)
      + Len(ProjectDescriptionLabel)
      + Len(IF project.description = <<>> THEN AnalyzedFromLocalZip
            ELSE project.description)
      + 1

\* C13: the file-listing section of the prompt of a local project holds the
\* first 100 paths of files, in order, one per line, and nothing else; with
\* 100 or fewer paths it holds all of them.
C13_ListingHoldsFirstHundred ==
    (prDone /\ prContext.type = "local") =>
        LET project == prContext.data
            shown   == FirstN(project.files, 100)
        IN  /\ IF shown = <<>> THEN prPrompt.listing = <<>>
               ELSE SplitLines(prPrompt.listing) = shown
            /\ Len(project.files) > 100 => Len(SplitLines(prPrompt.listing)) = 100
            /\ OccursAt(prPrompt.text,
                        FileStructureLabel \o prPrompt.listing \o KeyFileContentsLabel,
                        ListingStart(project))

\* C13 witness: a project of more than 100 files whose listing has 100 lines.
C13_Witness ==
    /\ prDone
    /\ prContext.type = "local"
    /\ Len(prContext.data.files) > 100
    /\ Len(SplitLines(prPrompt.listing)) = 100
    /\ SplitLines(prPrompt.listing)[100] = prContext.data.files[100]

\* C14: the block of every key file is its label followed by the first 2000
\* characters of its content (the whole content when it is shorter), and
\* the prompt holds exactly these blocks.
C14_BlockHoldsFirstTwoThousand ==
    (prDone /\ prContext.type = "local") =>
        LET keyFiles == prContext.data.keyFiles
        IN  /\ Len(prPrompt.blocks) = Len(keyFiles)
            /\ \A k \in 1..Len(keyFiles) :
                  /\ prPrompt.blocks[k] =
                        BlockOpen \o keyFiles[k].name \o BlockClose
                          \o FirstN(keyFiles[k].content, 2000) \o NewLine
                  /\ Len(prPrompt.blocks[k])
                        <= Len(BlockOpen) + Len(keyFiles[k].name) + Len(BlockClose)
                             + 2000 + 1
            /\ EndsWith(prPrompt.text,
                        KeyFileContentsLabel \o Join(prPrompt.blocks, NewLine)
                          \o ContextTail \o PromptInstructions)

\* C14 witness: a project with two key files, both longer than 2000
\* characters, each rendered with 2000 characters of content.
C14_Witness ==
    /\ prDone
    /\ prContext.type = "local"
    /\ Len(prContext.data.keyFiles) = 2
    /\ \A k \in 1..2 :
          /\ Len(prContext.data.keyFiles[k].content) > 2000
          /\ Len(prPrompt.blocks[k])
                = Len(BlockOpen) + Len(prContext.data.keyFiles[k].name)
                    + Len(BlockClose) + 2000 + 1

\* C15: every value that analyzeProject returns with all seven members has
\* a keyFeatures list of exactly 4 strings and a suggestions list of exactly
\* 3 strings.
C15_ListLengthsFixed ==
    (/\ anDone
     /\ anResult.status = "returned"
     /\ anResult.value.kind = "object"
     /\ ~Incomplete(anResult.value))
    => /\ anResult.value.fields["keyFeatures"] = "arr4"
       /\ anResult.value.fields["suggestions"] = "arr3"

\* C16: the name of the LocalProject is the name of the archive file
\* without its last four characters '.zip', whatever comes before them.
C16_TrailingExtensionRemoved ==
    (arcDone /\ EndsWith(arcFile.name, DotZip))
    => arcProject.name = SubSeq(arcFile.name, 1, Len(arcFile.name) - Len(DotZip))

\* C17: an archive without a README entry yields the placeholder as
\* description, and an archive none of whose entries has a base name that
\* matches the allow-list yields no key files.
C17_NoReadmeNoKeyFiles ==
    arcDone =>
        /\ ReadmeEntries = {} => arcProject.description = DescriptionPlaceholder
        /\ (\A i \in 1..Len(arcFile.entries) :
               ToLowerCase(LastSegment(arcFile.entries[i].path)) \notin RecognizedNames)
           => arcProject.keyFiles = <<>>

\* C17 witness: the archive holding only notes.txt, built with the
\* placeholder and without key files.
C17_Witness ==
    /\ arcDone
    /\ Len(arcFile.entries) = 1
    /\ arcFile.entries[1].path = <<"n", "o", "t", "e", "s", ".", "t", "x", "t">>
    /\ arcProject.description = DescriptionPlaceholder
    /\ arcProject.keyFiles = <<>>
    /\ arcProject.files = << <<"n", "o", "t", "e", "s", ".", "t", "x", "t">> >>

\* C18: when the lookup delivers a repository record, the context stored in
\* projectData and handed to the analysis has type 'github' and holds that
\* record, every field as delivered.
C18_GithubContextWrapsRecord ==
    [][\A t \in TaskIds, repo \in Repos :
          BodyReturns(t, repo)
          => /\ projectData'.type = "github"
             /\ projectData'.data = repo
             /\ projectBy' = t
             /\ tasks'[t].pc = "ai"
             /\ tasks'[t].ctx = projectData']_vars

\* C18 witness: a query whose lookup delivered a record is waiting for its
\* analysis, the record on display.
C18_Witness ==
    \E t \in TaskIds :
        /\ tasks[t].kind = "github"
        /\ tasks[t].pc = "ai"
        /\ projectBy = t
        /\ projectData.type = "github"
        /\ projectData.data \in Repos
        /\ tasks[t].ctx = projectData

\* C19: an invocation calls the repository lookup at most once and the
\* completion at most once; one that ended on a failed lookup made one
\* lookup and no completion call, one that ended on a failed completion
\* made one completion call.
C19_SingleAttempt ==
    \A t \in TaskIds :
        /\ tasks[t].lookups <= 1
        /\ tasks[t].aiCalls <= 1
        /\ tasks[t].kind = "zip" => tasks[t].lookups = 0
        /\ tasks[t].fault \in {"notOk", "fetchRejected", "bodyRejected"}
              => /\ tasks[t].pc = "done"
                 /\ tasks[t].lookups = 1
                 /\ tasks[t].aiCalls = 0
        /\ (Analyzed(tasks[t]) /\ tasks[t].result.status = "threw")
              => tasks[t].aiCalls = 1

\* C19 witness: one query ended on a rejected lookup and one on a failed
\* completion call, each after a single attempt.
C19_Witness ==
    \E t1, t2 \in TaskIds :
        /\ tasks[t1].pc = "done"
        /\ tasks[t1].fault = "fetchRejected"
        /\ tasks[t1].lookups = 1
        /\ tasks[t2].pc = "done"
        /\ tasks[t2].resp.failed
        /\ tasks[t2].lookups = 1
        /\ tasks[t2].aiCalls = 1

\* C20: the item 'gitlens_user' holds the serialization of the user when a
\* user is logged in and is absent when none is, after the start and after
\* every login, upgrade and logout; localStorage has been read once, by the
\* initializer of the user state.
C20_StoreMirrorsUser ==
    /\ user # NoUser =>
          /\ storage.present
          /\ storage.value = <<user.id, user.email, user.name, user.tier, user.avatarUrl>>
    /\ user = NoUser => ~storage.present
    /\ storageReads = 1

\* C20 witness: a user who logged in during this run and upgraded, stored
\* with the tier 'pro'.
C20_Witness ==
    /\ user # NoUser
    /\ user.id \in RandomIds
    /\ user.tier = "pro"
    /\ storage.present
    /\ storage.value[1] = user.id
    /\ storage.value[4] = "pro"

\* the results of the previous query are gone and the new one is under way
Fresh ==
    /\ projectData' = NoContext
    /\ analysis' = NullValue
    /\ error' = NoError
    /\ loading' = TRUE

\* C21: a repository query with a non-empty query string and an upload by
\* a pro user leave projectData, analysis and error null and loading true
\* when their first synchronous stretch ends; logout leaves projectData and
\* analysis null.
C21_NewQueryDiscardsResults ==
    [][/\ (FetchRepoData /\ query # <<>>) => Fresh
       /\ \A f \in UploadFiles : (ProcessZipFile(f) /\ IsPro(user)) => Fresh
       /\ Logout => (projectData' = NoContext /\ analysis' = NullValue)]_vars

\* C21 as amended: as C21, except that an upload of a file whose name does
\* not end in '.zip' leaves the unsupported-file error and loading false.
C21_NewQueryDiscardsResultsAmended ==
    [][/\ (FetchRepoData /\ query # <<>>) => Fresh
       /\ \A f \in UploadFiles :
             (ProcessZipFile(f) /\ IsPro(user))
             => /\ projectData' = NoContext
                /\ analysis' = NullValue
                /\ IF EndsWith(f.name, DotZip)
                   THEN error' = NoError /\ loading' = TRUE
                   ELSE error' = UnsupportedFileMsg /\ loading' = FALSE
       /\ Logout => (projectData' = NoContext /\ analysis' = NullValue)]_vars

\* C21 witness: a second query has just been started after the first one
\* had delivered an analysis, and nothing of the first is left.
C21_Witness ==
    /\ Len(tasks) = 2
    /\ Analyzed(tasks[1])
    /\ tasks[1].result.status = "returned"
    /\ tasks[1].result.value # NullValue
    /\ tasks[2].pc \in {"lookup", "decode"}
    /\ projectData = NoContext
    /\ analysis = NullValue
    /\ error = NoError
    /\ loading

\* C22: whenever an analysis is on display, a project is on display too and
\* the analysis was delivered to the invocation that stored that project.
C22_AnalysisBelongsToProject ==
    analysis # NullValue =>
        /\ projectData # NoContext
        /\ analysisBy = projectBy

\* C23: from a logout until the next query is started, projectData and
\* analysis stay null, whatever invocations started earlier complete.
C23_NothingShownAfterLogout ==
    [][(afterLogout /\ afterLogout')
         => (projectData' = NoContext /\ analysis' = NullValue)]_vars

\* an invocation is suspended at the await of analyzeProject
AnalysisInFlight == \E t \in TaskIds : tasks[t].pc = "ai"

\* C24: analyzing is true exactly while some completion call is in flight.
C24_AnalyzingTracksCompletions == analyzing <=> AnalysisInFlight

\* an invocation is suspended at the await of fetch, of response.json(), of
\* zip.loadAsync or of an entry's async('string')
LoadInFlight == \E t \in TaskIds : tasks[t].pc \in {"lookup", "json", "decode", "read"}

\* C25: loading is true while a repository lookup or an archive decoding
\* is in flight.
C25_LoadingTracksLookups == LoadInFlight => loading

\* C26: the step that stores the context of a repository query or of an
\* upload starts the completion call and ends the handler: loading is false
\* and the submit button enabled while analyzing is true and the completion
\* has not returned.
C26_LoadingEndsBeforeAnalysis ==
    [][\A t \in TaskIds :
          (tasks[t].pc \in {"json", "decode", "read"} /\ tasks'[t].pc = "ai")
          => /\ projectData' = tasks'[t].ctx
             /\ tasks'[t].result = NoResult
             /\ analyzing' = TRUE
             /\ loading' = FALSE
             /\ SubmitEnabled']_vars

\* C26 witness: a repository query has been submitted while the analysis
\* of the previous query is still pending.
C26_Witness ==
    /\ Len(tasks) = 2
    /\ tasks[1].pc = "ai"
    /\ tasks[2].kind = "github"
    /\ tasks[2].pc = "lookup"
    /\ analyzing

\* C27: when the only query started has run to its end (every external call
\* it made has returned or failed), loading and analyzing are false and an
\* analysis or an error is on display.
C27_SettlesWithResultOrError ==
    (Len(tasks) = 1 /\ tasks[1].pc = "done")
    => /\ ~loading
       /\ ~analyzing
       /\ (analysis # NullValue \/ error # NoError)

\* what an upload stopped by the tier gate must leave alone
GateFrame ==
    UNCHANGED <<projectData, analysis, loading, analyzing, user, storage, tasks,
                projectBy, analysisBy, query, showAuthModal>>

\* C28: an upload by no user or by a user who is not 'pro' (a drop, or a
\* click on the upload zone) changes the error and nothing else.
C28_GateChangesOnlyError ==
    [][/\ \A f \in UploadFiles :
             (ProcessZipFile(f) /\ ~IsPro(user))
             => (error' = GatedFeatureMsg /\ GateFrame)
       /\ (ClickUploadZone /\ ~IsPro(user)) => GateFrame]_vars

\* C28 witness: the result of a repository query is still on display after
\* a rejected upload.
C28_Witness ==
    /\ ~IsPro(user)
    /\ error = GatedFeatureMsg
    /\ projectData.type = "github"
    /\ analysis # NullValue
    /\ analysisBy = projectBy
    /\ ~loading
    /\ ~analyzing

\* C29: submitting the form with an empty query string changes none of
\* projectData, analysis, error, loading, analyzing, and starts no lookup and
\* no AI completion (no invocation is added, none moves on).
C29_EmptyQueryIsNoOp ==
    [][(FetchRepoData /\ query = <<>>)
       => UNCHANGED <<projectData, analysis, error, loading, analyzing, tasks,
                      projectBy, analysisBy>>]_vars

\* C29 witness: the query string is empty and the submit button enabled
\* while an earlier query's context and analysis are shown.
C29_Witness ==
    /\ query = <<>>
    /\ SubmitEnabled
    /\ Len(tasks) < MaxTasks
    /\ projectData # NoContext
    /\ analysis # NullValue

\* C30: the tier only moves upward within a session: login creates a user
\* of tier 'free'; the subscribe button makes a logged-in user 'pro',
\* keeping the rest of the record, and changes no user when nobody is logged
\* in; and a 'pro' user stays 'pro' until logout.
C30_TierOnlyMovesUp ==
    [][/\ \A id \in RandomIds, email \in Emails :
             Login(id, email) => user'.tier = "free"
       /\ Subscribe
             => IF user = NoUser
                THEN user' = NoUser /\ UNCHANGED storage
                ELSE user' = [user EXCEPT !.tier = "pro"]
       /\ IsPro(user) => (user' = NoUser \/ user' = user)]_vars

\* C30 witness: a user created by login in this run has been upgraded and
\* has then used the pro feature.
C30_Witness ==
    /\ IsPro(user)
    /\ user.id \in RandomIds
    /\ ~showAuthModal
    /\ projectData.type = "local"

====
